---- MODULE Spec2Model ----
(***************************************************************************)
(* Cycle tracking backend (couple-app-backend): the REST cycle routes and  *)
(* the Cycle document they load, mutate and save.                          *)
(*                                                                         *)
(* Time is counted in units of 12 hours since an arbitrary epoch, so that  *)
(* timestamps within one day are distinguishable; DayUnits units make one  *)
(* day.  A Date that is null/absent is the integer Null.                   *)
(***************************************************************************)
EXTENDS Integers, Sequences, FiniteSets, TLC

VARIABLES
    db,     \* the cycles collection: userId -> the Cycle document inserted
            \* first with that userId
    cache,  \* the response cache: userId -> cached GET / body (key cycle:<id>)
    res,    \* the response of the request handled last (with the request's
            \* arguments where it was refused, and the change event it emitted)
    now,    \* the clock read by the request handled last (new Date())
    pc,     \* position of each in-flight concurrent request
    loc,    \* the document each in-flight concurrent request holds in memory
    conns,  \* the connections collection: <<userId, connectedUserId>> -> status
    notifications,  \* the notifications collection
    errlog, \* what console.error has written
    duplicates  \* the cycles collection: the documents inserted with a
                \* userId that was already stored

vars ==
    <<db, cache, res, now, pc, loc, conns, notifications, errlog, duplicates>>

----------------------------------------------------------------------------
(* Bounds and input domains                                                *)

\* a Date that is null, or a request field that is absent
Null == -1

MaxPeriods == 3

Users == {"u1"}

\* the registered users
People == {"u1", "u2"}

\* instants at which requests are handled
Clock == {40}

\* dates given to startPeriod and endPeriod (Null: the date is omitted and
\* defaults to the clock): two instants of one day, 20 days before the clock
Dates == {0, 1, Null}

\* <<startDate, endDate>> given to logPeriod: open and completed entries,
\* an end before the start, a start more than a year ahead
LogArgs == {<<0, Null>>, <<40, Null>>, <<0, 1>>, <<40, 40>>, <<1, 0>>,
            <<900, Null>>}

\* <<startDate, endDate>> given to setExpectedPeriod: accepted ones, an end
\* before the start, a start in the past, a start more than 60 days ahead
ExpectedArgs == {<<41, Null>>, <<60, 70>>, <<41, 40>>, <<0, Null>>,
                 <<900, Null>>}

\* <<cycleLength, periodLength, isTracking>> given to updateSettings
SettingsArgs == {<<45, 10, "">>, <<Null, 1, "">>, <<Null, Null, "false">>,
                 <<20, Null, "">>, <<Null, 11, "">>}

FlowArgs == {""}

\* ledger bound and clock of the forecast specification
MaxForecastPeriods == 1

ForecastClock == {40, 41}

\* the estimator specification: ledger bound, clock, start dates (10, 20.5,
\* 29, 30, 45 and 45.5 days after a period that started at 0) and end dates
\* as offsets from the ongoing period's start (-1.5, -0.5, 0, 5, 9, 9.5 and
\* 39 days)
MaxEstPeriods == 2

EstClock == {100}

EstStartDates == {20, 41, 58, 60, 90, 91}

EstEndOffsets == {-3, -1, 0, 10, 18, 19, 78}

\* the race specification: the two requests in flight and the start dates
\* they carry
Requests == {"r1", "r2"}

RaceStartDates == {40, 44}

\* the sharing specification: ledger bound, candidate lists (each holds an
\* id that is no accepted connection of the caller: an unknown id or the
\* caller's own) and the ids a viewer asks for
MaxSharingPeriods == 1

SharingArgs ==
    {[isArray |-> TRUE, ids |-> <<"zz">>],
     [isArray |-> TRUE, ids |-> <<"zz", "u2">>],
     [isArray |-> TRUE, ids |-> <<"u1", "u2">>],
     [isArray |-> FALSE, ids |-> <<>>]}

OwnerArgs == {"u1", "u2", "zz", "!"}

\* the outcome specification: ledger and symptom bounds, end dates now and
\* before the start, logged periods (valid, reversed, overlapping the one
\* started now, out of range), forecasts (valid, past)
MaxOutcomePeriods == 2

MaxSymptoms == 1

OutcomeEndDates == {Null, 0}

OutcomeLogArgs == {<<0, 1>>, <<1, 0>>, <<40, Null>>, <<900, Null>>}

OutcomeExpectedArgs == {<<41, Null>>, <<0, Null>>}

\* the calculator specification: the clock runs from 0 to MaxElapsed, the
\* last period started at 0, at 4, or never; cycleLength at both ends of
\* its domain and at the default, every periodLength
MaxElapsed == 100

PhaseStarts == {Null, 0, 4}

PhaseCycleLengths == {21, 28, 45}

PhasePeriodLengths == 1..10

\* the forecast specification: the clock stands at day 20, the last period
\* started at 0, at 4, or never; every cycleLength and periodLength of the
\* domains; a manual forecast for day 30
WindowClock == {40}

WindowStarts == {Null, 0, 4}

WindowCycleLengths == 21..45

WindowPeriodLengths == 1..10

WindowExpectedArgs == {<<60, Null>>}

\* the profile specification: ledger and symptom bounds, one instant, one
\* period to log, a setting, a manual forecast for day 30, a sharing list,
\* and symptoms without a severity, with one, and with one out of range
MaxProfilePeriods == 2

MaxProfileSymptoms == 2

ProfileClock == {40}

ProfileLogArgs == {<<0, 4>>}

ProfileSettingsArgs == {<<30, Null, "">>}

ProfileExpectedArgs == {<<60, Null>>}

ProfileSharingArgs == {[isArray |-> TRUE, ids |-> <<"u2">>]}

ProfileSeverities == {Null, 5, 6}

\* the ongoing-flag specification: ledger bound, and periods logged open
\* 20 days ago and completed today
MaxOngoingPeriods == 2

OngoingLogArgs == {<<0, Null>>, <<40, 40>>}

\* the cache specification: ledger bound and the reads in flight
MaxCachePeriods == 2

Readers == {"g1", "g2"}

\* the gate specification: ledger and symptom bounds, and the settings the
\* owner changes to
MaxGatePeriods == 1

MaxGateSymptoms == 1

GateSettingsArgs == {<<30, 4, "">>}

\* the batch specification: ledger bound, and periods logged 22, 43.5, 70
\* and 150 days after the first, completed on their first day or open
MaxBatchPeriods == 3

BatchClock == {300}

BatchLogArgs == {<<0, 0>>, <<44, 44>>, <<87, Null>>, <<140, 140>>, <<300, 300>>}

\* the override specification: ledger bound, requests handled at midnight
\* and at noon of one day, and <<startDate, endDate>> given to
\* setExpectedPeriod: starts the day before, at midnight and at noon of
\* today, 60 days ahead to the half day and beyond, ends after, at and
\* before the start
MaxExpectedPeriods == 1

ExpectedClock == {40, 41}

\* dates given to startPeriod: omitted, 20 days ahead
ExpectedStartDates == {Null, 80}

ExpectedBoundArgs ==
    {<<39, Null>>, <<40, Null>>, <<41, Null>>, <<160, Null>>, <<161, Null>>,
     <<162, Null>>, <<60, 70>>, <<60, 60>>, <<60, 59>>}

\* the two-user specification: ledger bound
MaxUsersPeriods == 1

\* the range specification: ledger bound, a start date 45 days after and 5
\* days before the logged periods, themselves 50 days apart, end offsets
\* giving 10 and 40 days, settings at and beyond both ends of each domain
MaxRangePeriods == 2

RangeStartDates == {90}

RangeEndOffsets == {18, 78}

RangeLogArgs == {<<0, 0>>, <<100, Null>>}

RangeSettingsArgs == {<<21, 1, "">>, <<45, 10, "">>, <<20, 11, "">>}

----------------------------------------------------------------------------
(* Values                                                                  *)

DayUnits == 2

OneYearUnits == 730

SixtyDaysUnits == 120

SevenDaysUnits == 14

\* Math.round(n / d) for d > 0: the nearest integer, a half rounds up
MathRound(n, d) == (2 * n + d) \div (2 * d)

\* Math.round((a - b) / (1000 * 60 * 60 * 24))
DaysBetween(a, b) == MathRound(a - b, DayUnits)

\* the instant compared as it is, time of day included
Midnight_Kept(t) == t

\* setHours(0, 0, 0, 0): truncate to midnight
Midnight(t) == (t \div DayUnits) * DayUnits

\* (old, observed) pairs for which the double old * 0.7 + observed * 0.3 of
\* an exact half falls just below the half (e.g. 24 * 0.7 + 29 * 0.3 =
\* 25.499999999999996), so that Math.round rounds it down
HalfBelow ==
    {<<24, 29>>, <<24, 39>>, <<28, 23>>, <<29, 24>>, <<29, 34>>,
     <<6, 1>>, <<7, 2>>}

\* Math.round((old * 0.7) + (observed * 0.3))
WeightedRound(old, observed) ==
    IF <<old, observed>> \in HalfBelow
    THEN (7 * old + 3 * observed) \div 10
    ELSE (7 * old + 3 * observed + 5) \div 10

NoExpected == [startDate |-> Null, endDate |-> Null, isManuallySet |-> FALSE]

\* Cycle.create({userId, cycleLength, periodLength, isTracking})
NewCycle(cl, pl, tr) ==
    [cycleLength |-> cl, periodLength |-> pl, isTracking |-> tr,
     periods |-> <<>>, lastPeriodStart |-> Null, lastPeriodEnd |-> Null,
     expectedNextPeriod |-> NoExpected, shareWith |-> <<>>, symptoms |-> <<>>]

Last(s) == s[Len(s)]

\* const lastPeriod = periods[periods.length - 1]; lastPeriod && !lastPeriod.endDate
LastIsOngoing(periods) ==
    Len(periods) > 0 /\ Last(periods).endDate = Null

----------------------------------------------------------------------------
(* Phase & prediction calculator (methods of the Cycle document)           *)

\* the forecast taken one default cycle after the last start
getPredictedNextPeriod_Default(cycle) ==
    IF cycle.lastPeriodStart = Null THEN Null
    ELSE cycle.lastPeriodStart + 28 * DayUnits

\* getPredictedNextPeriod(): lastPeriodStart + cycleLength days, Null if none
getPredictedNextPeriod(cycle) ==
    IF cycle.lastPeriodStart = Null THEN Null
    ELSE cycle.lastPeriodStart + cycle.cycleLength * DayUnits

\* Math.abs(today - lastPeriodStart)
Abs(n) == IF n < 0 THEN 0 - n ELSE n

\* Math.ceil(diffTime / (1000 * 60 * 60 * 24))
CeilDays(diffTime) == (diffTime + DayUnits - 1) \div DayUnits

\* the remainder returned as it is, 0 included
getCurrentCycleDay_Remainder(cycle, today) ==
    IF cycle.lastPeriodStart = Null THEN Null
    ELSE CeilDays(Abs(today - cycle.lastPeriodStart)) % cycle.cycleLength

\* getCurrentCycleDay(): diffDays % cycleLength || cycleLength, Null if none
getCurrentCycleDay(cycle, today) ==
    IF cycle.lastPeriodStart = Null THEN Null
    ELSE LET diffTime == Abs(today - cycle.lastPeriodStart)
             diffDays == CeilDays(diffTime)
         IN  IF diffDays % cycle.cycleLength # 0
             THEN diffDays % cycle.cycleLength
             ELSE cycle.cycleLength

PhaseOf(phase, name, cycleDay) ==
    <<[phase |-> phase, name |-> name, day |-> cycleDay]>>

\* the follicular phase taken to last through day 14
getCurrentPhase_Follicular14(cycle, today) ==
    LET cycleDay == getCurrentCycleDay(cycle, today)
    IN  IF cycleDay = Null \/ cycleDay = 0 THEN <<>>
        ELSE IF cycleDay <= cycle.periodLength
        THEN PhaseOf("menstrual", "Period", cycleDay)
        ELSE IF cycleDay <= 14
        THEN PhaseOf("follicular", "Follicular Phase", cycleDay)
        ELSE IF cycleDay <= 16
        THEN PhaseOf("ovulation", "Ovulation Window", cycleDay)
        ELSE PhaseOf("luteal", "Luteal Phase", cycleDay)

\* the boundaries moved with the cycle: ovulation 12 days before its end
getCurrentPhase_Scaled(cycle, today) ==
    LET cycleDay == getCurrentCycleDay(cycle, today)
    IN  IF cycleDay = Null \/ cycleDay = 0 THEN <<>>
        ELSE IF cycleDay <= cycle.periodLength
        THEN PhaseOf("menstrual", "Period", cycleDay)
        ELSE IF cycleDay <= cycle.cycleLength - 15
        THEN PhaseOf("follicular", "Follicular Phase", cycleDay)
        ELSE IF cycleDay <= cycle.cycleLength - 12
        THEN PhaseOf("ovulation", "Ovulation Window", cycleDay)
        ELSE PhaseOf("luteal", "Luteal Phase", cycleDay)

\* getCurrentPhase(): <<>> stands for null
getCurrentPhase(cycle, today) ==
    LET cycleDay == getCurrentCycleDay(cycle, today)
    IN  IF cycleDay = Null \/ cycleDay = 0 THEN <<>>
        ELSE IF cycleDay <= cycle.periodLength
        THEN PhaseOf("menstrual", "Period", cycleDay)
        ELSE IF cycleDay <= 13
        THEN PhaseOf("follicular", "Follicular Phase", cycleDay)
        ELSE IF cycleDay <= 16
        THEN PhaseOf("ovulation", "Ovulation Window", cycleDay)
        ELSE PhaseOf("luteal", "Luteal Phase", cycleDay)

\* the window moved with the cycle: ovulation 14 days before its end
getFertileWindow_Scaled(cycle) ==
    IF cycle.lastPeriodStart = Null THEN <<>>
    ELSE <<[start |-> cycle.lastPeriodStart
                          + (cycle.cycleLength - 18) * DayUnits,
            end |-> cycle.lastPeriodStart
                        + (cycle.cycleLength - 12) * DayUnits,
            ovulationDay |-> cycle.lastPeriodStart
                                 + (cycle.cycleLength - 14) * DayUnits]>>

\* getFertileWindow(): setDate(getDate() + 10 / 16 / 14) on copies of
\* lastPeriodStart; <<>> stands for null
getFertileWindow(cycle) ==
    IF cycle.lastPeriodStart = Null THEN <<>>
    ELSE <<[start |-> cycle.lastPeriodStart + 10 * DayUnits,
            end |-> cycle.lastPeriodStart + 16 * DayUnits,
            ovulationDay |-> cycle.lastPeriodStart + 14 * DayUnits]>>

\* getNextPeriod(): the manual override if set, else the calculated one;
\* <<>> stands for null
getNextPeriod(cycle) ==
    IF cycle.expectedNextPeriod.isManuallySet
       /\ cycle.expectedNextPeriod.startDate # Null
    THEN <<[startDate |-> cycle.expectedNextPeriod.startDate,
            endDate |-> cycle.expectedNextPeriod.endDate,
            isManuallySet |-> TRUE]>>
    ELSE IF cycle.lastPeriodStart # Null
    THEN LET start == getPredictedNextPeriod(cycle)
         IN  <<[startDate |-> start,
                endDate |-> start + (cycle.periodLength - 1) * DayUnits,
                isManuallySet |-> FALSE]>>
    ELSE <<>>

----------------------------------------------------------------------------
(* Storage and cache helpers                                               *)

HasCycle(u) == u \in DOMAIN db

\* the profile created with tracking switched off
FindOrCreate_Untracked(u) ==
    IF HasCycle(u) THEN db[u] ELSE NewCycle(28, 5, FALSE)

\* Cycle.findOne({userId}) followed by Cycle.create(defaults) when absent
FindOrCreate(u) == IF HasCycle(u) THEN db[u] ELSE NewCycle(28, 5, TRUE)

\* a write whose filter has lost its userId: every stored document is replaced
Save_Unfiltered(u, cycle) == [x \in DOMAIN db \cup {u} |-> cycle]

\* cycle.save(): the document replaces the stored one
Save(u, cycle) == [x \in DOMAIN db \cup {u} |-> IF x = u THEN cycle ELSE db[x]]

\* a handler that creates the missing profile wholesale, found or not
Created_Replaced(u) == Save(u, NewCycle(28, 5, TRUE))

\* the collection once a handler has passed its findOne and, when that
\* found nothing, its create
Created(u) == Save(u, FindOrCreate(u))

\* entries live TTL.CYCLE = 1800 s, less than one time unit: an entry
\* written at an earlier clock value has expired
LiveCache(t) == IF t = now THEN cache ELSE [x \in {} |-> <<>>]

\* CacheService.invalidateCycle(userId): redis.del(cycle:<id>)
Invalidate(c, u) == [x \in DOMAIN c \ {u} |-> c[x]]

\* a response: the authenticated requester, the route, the HTTP status and
\* the error text of the body ("" on success)
Reply(u, op, status, error) ==
    [user |-> u, op |-> op, status |-> status, error |-> error]

----------------------------------------------------------------------------
(* notifyCycleUpdate and the response that follows it                      *)

\* User.find({ _id: { $in: cycle.shareWith } })
SharedUsers(cycle) ==
    {x \in People : \E i \in 1..Len(cycle.shareWith) : cycle.shareWith[i] = x}

\* how a call can go: the shared users whose notification was created
\* before the loop ended, and whether a collaborator (the user lookup,
\* Notification.create, sendToUser, sendPushNotification) threw.  An empty
\* shareWith returns before any collaborator is called; a throw ends the
\* loop, so users left without a notification mean that one threw.
NotifyOutcomes(cycle) ==
    IF Len(cycle.shareWith) = 0
    THEN {<<{}, FALSE>>}
    ELSE {o \in (SUBSET SharedUsers(cycle)) \X BOOLEAN :
             o[1] # SharedUsers(cycle) => o[2]}

\* a collaborator's failure escaping notifyCycleUpdate
NotifyRejects_Rethrown(outcome) == outcome[2]

\* whether await notifyCycleUpdate(...) rejects: its whole body is inside
\* try { } catch (error) { console.error(...) }
NotifyRejects(outcome) == FALSE

\* await notifyCycleUpdate(userId, cycle, type) followed by res.json(body),
\* or by the handler's catch when the await rejects
NotifyAndRespond(u, cycle, failure, body) ==
    \E outcome \in NotifyOutcomes(cycle) :
        /\ notifications' = notifications \cup
               {[senderId |-> u, receiverId |-> x, type |-> "cycle"] :
                    x \in outcome[1]}
        /\ errlog' = IF outcome[2]
                     THEN errlog \cup {"Error notifying cycle update"}
                     ELSE errlog
        /\ res' = IF NotifyRejects(outcome)
                  THEN Reply(u, body.op, 500, failure)
                  ELSE body

----------------------------------------------------------------------------
(* POST /period/start                                                      *)

\* the smoothing without the 21..45 outlier filter
UpdatedCycleLength_NoFilter(cycle, startDate) ==
    IF cycle.lastPeriodStart # Null
    THEN WeightedRound(cycle.cycleLength,
                       DaysBetween(startDate, cycle.lastPeriodStart))
    ELSE cycle.cycleLength

UpdatedCycleLength(cycle, startDate) ==
    IF cycle.lastPeriodStart # Null
    THEN LET daysBetween == DaysBetween(startDate, cycle.lastPeriodStart)
         IN  IF daysBetween >= 21 /\ daysBetween <= 45
             THEN WeightedRound(cycle.cycleLength, daysBetween)
             ELSE cycle.cycleLength
    ELSE cycle.cycleLength

\* a start on the expected day itself taken for an early one
CameEarly_SameDay(cycle, startDate) ==
    /\ cycle.expectedNextPeriod.isManuallySet
    /\ cycle.expectedNextPeriod.startDate # Null
    /\ Midnight(startDate) <= Midnight(cycle.expectedNextPeriod.startDate)

\* cameEarly: the start day lies before the day of the manual forecast
CameEarly(cycle, startDate) ==
    /\ cycle.expectedNextPeriod.isManuallySet
    /\ cycle.expectedNextPeriod.startDate # Null
    /\ Midnight(startDate) < Midnight(cycle.expectedNextPeriod.startDate)

\* the type handed to notifyCycleUpdate:
\* cameEarly ? 'period_started_early' : 'period_started'
StartEvent(cameEarly) ==
    IF cameEarly THEN "period_started_early" ELSE "period_started"

\* the changes without the reset of expectedNextPeriod
StartedCycle_KeepExpected(cycle, startDate, flow) ==
    [cycle EXCEPT
        !.cycleLength = UpdatedCycleLength(cycle, startDate),
        !.periods = Append(cycle.periods,
                           [startDate |-> startDate, endDate |-> Null,
                            flow |-> flow]),
        !.lastPeriodStart = startDate]

StartedCycle(cycle, startDate, flow) ==
    [cycle EXCEPT
        !.cycleLength = UpdatedCycleLength(cycle, startDate),
        !.periods = Append(cycle.periods,
                           [startDate |-> startDate, endDate |-> Null,
                            flow |-> flow]),
        !.lastPeriodStart = startDate,
        !.expectedNextPeriod = NoExpected]

StartPeriod(u, t, dateArg, flowArg, cap) ==
    LET startDate == IF dateArg = Null THEN t ELSE dateArg
        flow == IF flowArg = "" THEN "medium" ELSE flowArg
        cycle == FindOrCreate(u)
        saved == StartedCycle(cycle, startDate, flow)
    IN  /\ now' = t
        /\ UNCHANGED <<pc, loc, duplicates, conns>>
        /\ IF LastIsOngoing(cycle.periods)
           THEN /\ res' = Reply(u, "startPeriod", 400,
                        "There is already an ongoing period. Please end it first.")
                /\ db' = Created(u)
                /\ cache' = LiveCache(t)
                /\ UNCHANGED <<notifications, errlog>>
           ELSE /\ Len(cycle.periods) < cap
                /\ db' = Save(u, saved)
                /\ cache' = Invalidate(LiveCache(t), u)
                /\ NotifyAndRespond(u, saved, "Failed to start period",
                       [user |-> u, op |-> "startPeriod", status |-> 200, error |-> "",
                           period |-> Last(saved.periods),
                           cameEarly |-> CameEarly(cycle, startDate),
                           event |-> StartEvent(CameEarly(cycle, startDate)),
                           nextPeriod |-> getNextPeriod(saved)])

----------------------------------------------------------------------------
(* POST /period/end                                                        *)

\* the check with its second half lost: only an empty ledger is refused
NoOngoingToEnd_EmptyOnly(periods) ==
    Len(periods) = 0

\* !lastPeriod || lastPeriod.endDate
NoOngoingToEnd(periods) ==
    Len(periods) = 0 \/ Last(periods).endDate # Null

\* Math.round((endDate - lastPeriod.startDate) / day) + 1
PeriodDays(endDate, startDate) == DaysBetween(endDate, startDate) + 1

\* the smoothing without the upper limit of 10 days
UpdatedPeriodLength_NoUpper(old, periodDays) ==
    IF periodDays >= 1
    THEN WeightedRound(old, periodDays)
    ELSE old

UpdatedPeriodLength(old, periodDays) ==
    IF periodDays >= 1 /\ periodDays <= 10
    THEN WeightedRound(old, periodDays)
    ELSE old

\* the manual forecast dropped when the period ends
EndedCycle_ClearExpected(cycle, endDate) ==
    [cycle EXCEPT
        !.expectedNextPeriod = NoExpected,
        !.periods[Len(cycle.periods)].endDate = endDate,
        !.lastPeriodEnd = endDate,
        !.periodLength =
            UpdatedPeriodLength(cycle.periodLength,
                PeriodDays(endDate, Last(cycle.periods).startDate))]

\* lastPeriod.endDate = endDate and the smoothed periodLength
EndedCycle(cycle, endDate) ==
    [cycle EXCEPT
        !.periods[Len(cycle.periods)].endDate = endDate,
        !.lastPeriodEnd = endDate,
        !.periodLength =
            UpdatedPeriodLength(cycle.periodLength,
                PeriodDays(endDate, Last(cycle.periods).startDate))]

EndPeriod(u, t, dateArg) ==
    LET endDate == IF dateArg = Null THEN t ELSE dateArg
        Refused(status, error) ==
            [user |-> u, op |-> "endPeriod", status |-> status,
             error |-> error, date |-> endDate]
    IN  /\ now' = t
        /\ UNCHANGED <<pc, loc, duplicates, conns>>
        /\ IF ~HasCycle(u)
           THEN /\ res' = Refused(404, "Cycle data not found")
                /\ db' = db
                /\ cache' = LiveCache(t)
                /\ UNCHANGED <<notifications, errlog>>
           ELSE IF NoOngoingToEnd(db[u].periods)
           THEN /\ res' = Refused(400, "No ongoing period to end")
                /\ db' = db
                /\ cache' = LiveCache(t)
                /\ UNCHANGED <<notifications, errlog>>
           ELSE IF PeriodDays(endDate, Last(db[u].periods).startDate) < 1
           THEN /\ res' = Refused(400, "End date cannot be before start date")
                /\ db' = db
                /\ cache' = LiveCache(t)
                /\ UNCHANGED <<notifications, errlog>>
           ELSE LET saved == EndedCycle(db[u], endDate)
                IN  /\ db' = Save(u, saved)
                    /\ cache' = Invalidate(LiveCache(t), u)
                    /\ NotifyAndRespond(u, saved, "Failed to end period",
                           [user |-> u, op |-> "endPeriod", status |-> 200, error |-> "",
                               period |-> Last(saved.periods),
                               periodLength |-> saved.periodLength])

----------------------------------------------------------------------------
(* POST /period/log                                                        *)

\* the intersection test with the boundaries left out
Overlaps_Strict(existingPeriod, startDate, newEndDate) ==
    LET existingStart == existingPeriod.startDate
        existingEnd == IF existingPeriod.endDate # Null
                       THEN existingPeriod.endDate
                       ELSE existingStart + SevenDaysUnits
    IN  startDate < existingEnd /\ newEndDate > existingStart

\* the existing period's interval, open periods taken as 7 days long,
\* intersects [startDate, newEndDate]
Overlaps(existingPeriod, startDate, newEndDate) ==
    LET existingStart == existingPeriod.startDate
        existingEnd == IF existingPeriod.endDate # Null
                       THEN existingPeriod.endDate
                       ELSE existingStart + SevenDaysUnits
    IN  startDate <= existingEnd /\ newEndDate >= existingStart

\* cycle.periods.find(...): index of the first overlapping period, 0 if none
OverlappingPeriod(periods, startDate, endDate) ==
    LET newEndDate == IF endDate # Null THEN endDate
                      ELSE startDate + SevenDaysUnits
        hits == {i \in 1..Len(periods) :
                    Overlaps(periods[i], startDate, newEndDate)}
    IN  IF hits = {} THEN 0
        ELSE CHOOSE i \in hits : \A j \in hits : i <= j

RECURSIVE InsertByStart(_, _)
InsertByStart(s, p) ==
    IF s = <<>> THEN <<p>>
    ELSE IF Last(s).startDate <= p.startDate THEN Append(s, p)
    ELSE Append(InsertByStart(SubSeq(s, 1, Len(s) - 1), p), Last(s))

\* periods.sort((a, b) => a.startDate - b.startDate), a stable sort
RECURSIVE SortByStart(_)
SortByStart(s) ==
    IF s = <<>> THEN <<>>
    ELSE InsertByStart(SortByStart(SubSeq(s, 1, Len(s) - 1)), Last(s))

\* the batch estimate without the 21..45 filter on the gaps
BatchCycleLength_NoFilter(periods, old) ==
    IF Len(periods) >= 2
    THEN LET first == IF Len(periods) > 3 THEN Len(periods) - 2 ELSE 1
             recentPeriods == SubSeq(periods, first, Len(periods))
             gap(i) == DaysBetween(recentPeriods[i].startDate,
                                   recentPeriods[i - 1].startDate)
             totalDays == gap(2) + (IF Len(recentPeriods) >= 3
                                    THEN gap(3) ELSE 0)
         IN  MathRound(totalDays, Len(recentPeriods) - 1)
    ELSE old

\* the batch mean smoothed into the previous estimate
BatchCycleLength_Smoothed(periods, old) ==
    IF Len(periods) >= 2
    THEN LET first == IF Len(periods) > 3 THEN Len(periods) - 2 ELSE 1
             recentPeriods == SubSeq(periods, first, Len(periods))
             gap(i) == DaysBetween(recentPeriods[i].startDate,
                                   recentPeriods[i - 1].startDate)
             valid == {i \in 2..Len(recentPeriods) :
                          gap(i) >= 21 /\ gap(i) <= 45}
             gapOr0(i) == IF i \in valid THEN gap(i) ELSE 0
             totalDays == gapOr0(2) + (IF Len(recentPeriods) >= 3
                                       THEN gapOr0(3) ELSE 0)
             count == Cardinality(valid)
         IN  IF count > 0
             THEN WeightedRound(old, MathRound(totalDays, count))
             ELSE old
    ELSE old

\* the batch estimate over the (at most) three most recent periods
BatchCycleLength(periods, old) ==
    IF Len(periods) >= 2
    THEN LET first == IF Len(periods) > 3 THEN Len(periods) - 2 ELSE 1
             recentPeriods == SubSeq(periods, first, Len(periods))
             gap(i) == DaysBetween(recentPeriods[i].startDate,
                                   recentPeriods[i - 1].startDate)
             valid == {i \in 2..Len(recentPeriods) :
                          gap(i) >= 21 /\ gap(i) <= 45}
             gapOr0(i) == IF i \in valid THEN gap(i) ELSE 0
             totalDays == gapOr0(2) + (IF Len(recentPeriods) >= 3
                                       THEN gapOr0(3) ELSE 0)
             count == Cardinality(valid)
         IN  IF count > 0 THEN MathRound(totalDays, count) ELSE old
    ELSE old

\* the logged period always taken for the most recent one
LoggedCycle_AlwaysLast(cycle, startDate, endDate, flow) ==
    LET sorted == SortByStart(Append(cycle.periods,
                     [startDate |-> startDate, endDate |-> endDate,
                      flow |-> flow]))
    IN  [cycle EXCEPT
            !.periods = sorted,
            !.lastPeriodStart = startDate,
            !.lastPeriodEnd = endDate,
            !.cycleLength = BatchCycleLength(sorted, @),
            !.periodLength =
                IF endDate # Null
                THEN UpdatedPeriodLength(@, PeriodDays(endDate, startDate))
                ELSE @]

\* the document after the push, the sort and the recalculations
LoggedCycle(cycle, startDate, endDate, flow) ==
    LET sorted == SortByStart(Append(cycle.periods,
                     [startDate |-> startDate, endDate |-> endDate,
                      flow |-> flow]))
        isMostRecent == Last(sorted).startDate = startDate
    IN  [cycle EXCEPT
            !.periods = sorted,
            !.lastPeriodStart = IF isMostRecent THEN startDate ELSE @,
            !.lastPeriodEnd = IF isMostRecent THEN endDate ELSE @,
            !.cycleLength = BatchCycleLength(sorted, @),
            !.periodLength =
                IF endDate # Null
                THEN UpdatedPeriodLength(@, PeriodDays(endDate, startDate))
                ELSE @]

LogPeriod(u, t, startDate, endDate, flowArg, cap) ==
    LET flow == IF flowArg = "" THEN "medium" ELSE flowArg
        cycle == FindOrCreate(u)
        hit == OverlappingPeriod(cycle.periods, startDate, endDate)
        saved == LoggedCycle(cycle, startDate, endDate, flow)
    IN  /\ now' = t
        /\ UNCHANGED <<pc, loc, duplicates, conns>>
        /\ IF endDate # Null /\ endDate < startDate
           THEN /\ res' = Reply(u, "logPeriod", 400,
                                "End date cannot be before start date")
                /\ db' = db
                /\ cache' = LiveCache(t)
                /\ UNCHANGED <<notifications, errlog>>
           ELSE IF startDate < t - OneYearUnits \/ startDate > t + OneYearUnits
           THEN /\ res' = Reply(u, "logPeriod", 400,
                                "Date must be within 1 year of today")
                /\ db' = db
                /\ cache' = LiveCache(t)
                /\ UNCHANGED <<notifications, errlog>>
           ELSE IF hit # 0
           THEN /\ res' = [user |-> u, op |-> "logPeriod", status |-> 400,
                           error |-> "This period overlaps with an existing period",
                           overlapsWithStart |->
                               cycle.periods[hit].startDate \div DayUnits,
                           request |-> [startDate |-> startDate,
                                        endDate |-> endDate]]
                /\ db' = Created(u)
                /\ cache' = LiveCache(t)
                /\ UNCHANGED <<notifications, errlog>>
           ELSE /\ Len(cycle.periods) < cap
                /\ db' = Save(u, saved)
                /\ cache' = Invalidate(LiveCache(t), u)
                /\ NotifyAndRespond(u, saved, "Failed to log period",
                       [user |-> u, op |-> "logPeriod", status |-> 200, error |-> "",
                           period |-> [startDate |-> startDate,
                                       endDate |-> endDate, flow |-> flow]])

----------------------------------------------------------------------------
(* DELETE /period/:periodId and DELETE /periods                            *)

RemoveAt(s, i) == SubSeq(s, 1, i - 1) \o SubSeq(s, i + 1, Len(s))

Completed(periods) == SelectSeq(periods, LAMBDA p : p.endDate # Null)

\* the recalculation taking the most recent period, completed or not
DeletedCycle_MostRecent(cycle, periodIndex) ==
    LET rest == RemoveAt(cycle.periods, periodIndex)
        sorted == SortByStart(rest)
    IN  IF Len(rest) > 0
        THEN [cycle EXCEPT
                 !.periods = sorted,
                 !.lastPeriodStart = Last(sorted).startDate,
                 !.lastPeriodEnd = Last(sorted).endDate]
        ELSE [cycle EXCEPT
                 !.periods = rest,
                 !.lastPeriodStart = Null,
                 !.lastPeriodEnd = Null]

\* the cycle after periods.splice(periodIndex, 1) and the recalculation of
\* lastPeriodStart / lastPeriodEnd
DeletedCycle(cycle, periodIndex) ==
    LET rest == RemoveAt(cycle.periods, periodIndex)
        sorted == SortByStart(rest)
        completedPeriods == Completed(sorted)
    IN  IF Len(rest) > 0
        THEN IF Len(completedPeriods) > 0
             THEN [cycle EXCEPT
                      !.periods = sorted,
                      !.lastPeriodStart = Last(completedPeriods).startDate,
                      !.lastPeriodEnd = Last(completedPeriods).endDate]
             ELSE [cycle EXCEPT
                      !.periods = sorted,
                      !.lastPeriodStart = Last(sorted).startDate,
                      !.lastPeriodEnd = Null]
        ELSE [cycle EXCEPT
                 !.periods = rest,
                 !.lastPeriodStart = Null,
                 !.lastPeriodEnd = Null]

\* periodIndex is the position findIndex gives the requested id, 0 when the
\* id belongs to no period of the ledger
DeletePeriod(u, t, periodIndex) ==
    /\ now' = t
    /\ UNCHANGED <<pc, loc, duplicates, conns, notifications, errlog>>
    /\ IF ~HasCycle(u)
       THEN /\ res' = Reply(u, "deletePeriod", 404, "Cycle data not found")
            /\ db' = db
            /\ cache' = LiveCache(t)
       ELSE IF periodIndex = 0 \/ periodIndex > Len(db[u].periods)
       THEN /\ res' = Reply(u, "deletePeriod", 404, "Period not found")
            /\ db' = db
            /\ cache' = LiveCache(t)
       ELSE LET saved == DeletedCycle(db[u], periodIndex)
            IN  /\ db' = Save(u, saved)
                /\ cache' = Invalidate(LiveCache(t), u)
                /\ res' = [user |-> u, op |-> "deletePeriod", status |-> 200, error |-> "",
                           remainingPeriods |-> Len(saved.periods)]

\* the reset taken as far as a new document
ClearedCycle_Fresh(cycle) == NewCycle(28, 5, TRUE)

ClearedCycle(cycle) ==
    [cycle EXCEPT
        !.periods = <<>>,
        !.lastPeriodStart = Null,
        !.lastPeriodEnd = Null,
        !.expectedNextPeriod = NoExpected,
        !.cycleLength = 28,
        !.periodLength = 5]

ClearPeriods(u, t) ==
    /\ now' = t
    /\ UNCHANGED <<pc, loc, duplicates, conns, notifications, errlog>>
    /\ IF ~HasCycle(u)
       THEN /\ res' = Reply(u, "clearPeriods", 404, "Cycle data not found")
            /\ db' = db
            /\ cache' = LiveCache(t)
       ELSE /\ db' = Save(u, ClearedCycle(db[u]))
            /\ cache' = Invalidate(LiveCache(t), u)
            /\ res' = [user |-> u, op |-> "clearPeriods", status |-> 200, error |-> "",
                       deletedCount |-> Len(db[u].periods)]

----------------------------------------------------------------------------
(* PUT /settings                                                           *)

\* isInt({min: 21, max: 45}) / isInt({min: 1, max: 10}) on the optional fields
SettingsAccepted(cycleLength, periodLength) ==
    /\ cycleLength # Null => cycleLength >= 21 /\ cycleLength <= 45
    /\ periodLength # Null => periodLength >= 1 /\ periodLength <= 10

\* isTracking is "" when absent, else "true" or "false"
UpdatedSettings(cycle, cycleLength, periodLength, isTracking) ==
    [cycle EXCEPT
        !.cycleLength = IF cycleLength # Null THEN cycleLength ELSE @,
        !.periodLength = IF periodLength # Null THEN periodLength ELSE @,
        !.isTracking = IF isTracking # "" THEN isTracking = "true" ELSE @]

UpdateSettings(u, t, cycleLength, periodLength, isTracking) ==
    LET saved == IF HasCycle(u)
                 THEN UpdatedSettings(db[u], cycleLength, periodLength,
                                      isTracking)
                 ELSE NewCycle(IF cycleLength # Null THEN cycleLength ELSE 28,
                               IF periodLength # Null THEN periodLength ELSE 5,
                               IF isTracking # "" THEN isTracking = "true"
                               ELSE TRUE)
    IN  /\ now' = t
        /\ UNCHANGED <<pc, loc, duplicates, conns, notifications, errlog>>
        /\ IF ~SettingsAccepted(cycleLength, periodLength)
           THEN /\ res' = Reply(u, "updateSettings", 400, "validation")
                /\ db' = db
                /\ cache' = LiveCache(t)
           ELSE /\ db' = Save(u, saved)
                /\ cache' = Invalidate(LiveCache(t), u)
                /\ res' = [user |-> u, op |-> "updateSettings", status |-> 200,
                           error |-> "",
                           settings |-> [cycleLength |-> saved.cycleLength,
                                         periodLength |-> saved.periodLength,
                                         isTracking |-> saved.isTracking]]

----------------------------------------------------------------------------
(* PUT /expected and DELETE /expected                                      *)

SetExpectedPeriod(u, t, startDate, endDate) ==
    LET cycle == FindOrCreate(u)
        saved == [cycle EXCEPT
                     !.expectedNextPeriod =
                         [startDate |-> startDate, endDate |-> endDate,
                          isManuallySet |-> TRUE]]
        Refused(error) ==
            [user |-> u, op |-> "setExpectedPeriod", status |-> 400,
             error |-> error,
             request |-> [startDate |-> startDate, endDate |-> endDate]]
    IN  /\ now' = t
        /\ UNCHANGED <<pc, loc, duplicates, conns>>
        /\ IF endDate # Null /\ endDate < startDate
           THEN /\ res' = Refused("End date cannot be before start date")
                /\ db' = db
                /\ cache' = LiveCache(t)
                /\ UNCHANGED <<notifications, errlog>>
           ELSE IF Midnight(startDate) < Midnight(t)
           THEN /\ res' = Refused(
                    "Expected period start date must be today or in the future")
                /\ db' = db
                /\ cache' = LiveCache(t)
                /\ UNCHANGED <<notifications, errlog>>
           ELSE IF startDate > t + SixtyDaysUnits
           THEN /\ res' = Refused(
                    "Expected period date must be within 60 days from today")
                /\ db' = db
                /\ cache' = LiveCache(t)
                /\ UNCHANGED <<notifications, errlog>>
           ELSE /\ db' = Save(u, saved)
                /\ cache' = Invalidate(LiveCache(t), u)
                /\ NotifyAndRespond(u, saved, "Failed to set expected period",
                       [user |-> u, op |-> "setExpectedPeriod", status |-> 200,
                           error |-> "",
                           expectedNextPeriod |->
                               [startDate |-> saved.expectedNextPeriod.startDate,
                                endDate |-> saved.expectedNextPeriod.endDate,
                                isManuallySet |-> TRUE]])

ClearExpectedPeriod(u, t) ==
    /\ now' = t
    /\ UNCHANGED <<pc, loc, duplicates, conns, notifications, errlog>>
    /\ IF ~HasCycle(u)
       THEN /\ res' = Reply(u, "clearExpectedPeriod", 404, "Cycle data not found")
            /\ db' = db
            /\ cache' = LiveCache(t)
       ELSE LET saved == [db[u] EXCEPT !.expectedNextPeriod = NoExpected]
            IN  /\ db' = Save(u, saved)
                /\ cache' = Invalidate(LiveCache(t), u)
                /\ res' = [user |-> u, op |-> "clearExpectedPeriod", status |-> 200,
                           error |-> "",
                           nextPeriod |-> getNextPeriod(saved)]

----------------------------------------------------------------------------
(* POST /symptom                                                           *)

SymptomTypes ==
    {"cramps", "headache", "mood_swings", "bloating", "fatigue",
     "breast_tenderness", "acne", "back_pain", "nausea", "cravings",
     "anxiety", "other"}

\* only the entry pushed last kept
PushSymptom_Latest(symptoms, date, type, severity) ==
    <<[date |-> date, type |-> type,
       severity |-> IF severity # Null THEN severity ELSE 3]>>

\* cycle.symptoms.push({date, type, severity: severity || 3, notes})
PushSymptom(symptoms, date, type, severity) ==
    Append(symptoms, [date |-> date, type |-> type,
                      severity |-> IF severity # Null THEN severity ELSE 3])

\* severity is Null when absent
LogSymptom(u, t, type, severity, cap) ==
    LET cycle == FindOrCreate(u)
        saved == [cycle EXCEPT
                     !.symptoms = PushSymptom(@, t, type, severity)]
    IN  /\ now' = t
        /\ UNCHANGED <<pc, loc, duplicates, conns, notifications, errlog>>
        /\ IF \/ type \notin SymptomTypes
              \/ severity # Null /\ severity \notin 1..5
           THEN /\ res' = Reply(u, "logSymptom", 400, "validation")
                /\ db' = db
                /\ cache' = LiveCache(t)
           ELSE /\ Len(cycle.symptoms) < cap
                /\ db' = Save(u, saved)
                /\ cache' = Invalidate(LiveCache(t), u)
                /\ res' = [user |-> u, op |-> "logSymptom", status |-> 200,
                           error |-> "", symptom |-> Last(saved.symptoms),
                           request |-> [type |-> type,
                                        severity |-> severity]]

----------------------------------------------------------------------------
(* The connections between users (routes/connections.js), of type          *)
(* close_friend: the partner limit plays no part in sharing                *)

\* the connection documents between a and b, in either direction
Between(a, b) == {c \in DOMAIN conns : c = <<a, b>> \/ c = <<b, a>>}

\* Connection.findOne / find with status 'accepted' and the two users on
\* either side
Accepted(a, b) == \E c \in Between(a, b) : conns[c] = "accepted"

SetConn(c, status) ==
    [x \in DOMAIN conns \cup {c} |-> IF x = c THEN status ELSE conns[x]]

\* POST /request
RequestConnection(a, b) ==
    /\ UNCHANGED <<db, cache, now, pc, loc, duplicates, notifications, errlog>>
    /\ IF a = b
       THEN /\ res' = Reply(a, "requestConnection", 400,
                            "Cannot connect with yourself")
            /\ conns' = conns
       ELSE IF b \notin People
       THEN /\ res' = Reply(a, "requestConnection", 404, "User not found")
            /\ conns' = conns
       ELSE IF \E c \in Between(a, b) : conns[c] = "accepted"
       THEN /\ res' = Reply(a, "requestConnection", 400, "Already connected")
            /\ conns' = conns
       ELSE IF \E c \in Between(a, b) : conns[c] = "pending"
       THEN /\ res' = Reply(a, "requestConnection", 400,
                            "Request already pending")
            /\ conns' = conns
       ELSE IF \E c \in Between(a, b) : conns[c] = "blocked"
       THEN /\ res' = Reply(a, "requestConnection", 400,
                            "Cannot connect with this user")
            /\ conns' = conns
       ELSE /\ res' = Reply(a, "requestConnection", 201, "")
            /\ conns' = SetConn(<<a, b>>, "pending")

\* PUT /:connectionId/accept, by the user the request was sent to
AcceptConnection(u, c) ==
    /\ UNCHANGED <<db, cache, now, pc, loc, duplicates, notifications, errlog>>
    /\ IF c \in DOMAIN conns /\ c[2] = u /\ conns[c] = "pending"
       THEN /\ res' = Reply(u, "acceptConnection", 200, "")
            /\ conns' = SetConn(c, "accepted")
       ELSE /\ res' = Reply(u, "acceptConnection", 404,
                            "Connection request not found")
            /\ conns' = conns

\* DELETE /:connectionId, by either side
RemoveConnection(u, c) ==
    /\ UNCHANGED <<db, cache, now, pc, loc, duplicates, notifications, errlog>>
    /\ IF c \in DOMAIN conns /\ (c[1] = u \/ c[2] = u)
       THEN /\ res' = Reply(u, "removeConnection", 200, "")
            /\ conns' = [x \in DOMAIN conns \ {c} |-> conns[x]]
       ELSE /\ res' = Reply(u, "removeConnection", 404, "Connection not found")
            /\ conns' = conns

\* PUT /:connectionId/block, by either side
BlockConnection(u, c) ==
    /\ UNCHANGED <<db, cache, now, pc, loc, duplicates, notifications, errlog>>
    /\ IF c \in DOMAIN conns /\ (c[1] = u \/ c[2] = u)
       THEN /\ res' = Reply(u, "blockConnection", 200, "")
            /\ conns' = SetConn(c, "blocked")
       ELSE /\ res' = Reply(u, "blockConnection", 404, "Connection not found")
            /\ conns' = conns

----------------------------------------------------------------------------
(* PUT /sharing and GET /user/:userId                                      *)

\* the other side of every accepted connection of u
ConnectedUserIds(u) == {x \in People : x # u /\ Accepted(u, x)}

\* the filter lost: every candidate is stored
ValidShareWith_Unfiltered(u, shareWith) == shareWith

\* shareWith.filter(id => connectedUserIds.includes(id))
ValidShareWith(u, shareWith) ==
    SelectSeq(shareWith, LAMBDA id : id \in ConnectedUserIds(u))

\* arg.isArray tells whether req.body.shareWith is an array, arg.ids are its
\* elements; the response is kept with the candidates it answers
UpdateSharing(u, t, arg) ==
    LET validShareWith == ValidShareWith(u, arg.ids)
        saved == IF HasCycle(u)
                 THEN [db[u] EXCEPT !.shareWith = validShareWith]
                 ELSE [NewCycle(28, 5, TRUE) EXCEPT
                          !.shareWith = validShareWith]
    IN  /\ now' = t
        /\ UNCHANGED <<pc, loc, duplicates, conns, notifications, errlog>>
        /\ IF ~arg.isArray
           THEN /\ res' = [user |-> u, op |-> "updateSharing", status |-> 400,
                           error |-> "validation", candidates |-> arg.ids]
                /\ db' = db
                /\ cache' = LiveCache(t)
           ELSE /\ db' = Save(u, saved)
                /\ cache' = Invalidate(LiveCache(t), u)
                /\ res' = [user |-> u, op |-> "updateSharing", status |-> 200,
                           error |-> "", candidates |-> arg.ids,
                           shareWith |-> saved.shareWith]

\* ids that new mongoose.Types.ObjectId(userId) accepts
WellFormedIds == People \cup {"zz"}

\* the body shown to a viewer: what the owner's own read shows, without the
\* sharing list
SharedBody(viewer, owner, cycle) ==
    [user |-> viewer, op |-> "getSharedCycle", status |-> 200, error |-> "",
     owner |-> owner,
     cycleLength |-> cycle.cycleLength,
     periodLength |-> cycle.periodLength,
     isTracking |-> cycle.isTracking,
     nextPeriod |-> getNextPeriod(cycle),
     hasOngoingPeriod |-> LastIsOngoing(cycle.periods)]

\* a refusal that tells whether the owner has logged a period
Refusal_Telling(viewer, owner, status, error) ==
    [user |-> viewer, op |-> "getSharedCycle", status |-> status,
     error |-> error, owner |-> owner,
     hasPeriods |-> HasCycle(owner) /\ db[owner].periods # <<>>]

\* an error response, kept with the :userId it answers
Refusal(viewer, owner, status, error) ==
    [user |-> viewer, op |-> "getSharedCycle", status |-> status,
     error |-> error, owner |-> owner]

\* the accepted-connection test of the route
IsConnected_Always(viewer, owner) == TRUE

IsConnected(viewer, owner) == Accepted(viewer, owner)

\* Cycle.findOne({ userId: targetUserId, shareWith: req.user._id })
IsSharedWith(viewer, owner) ==
    /\ HasCycle(owner)
    /\ \E i \in 1..Len(db[owner].shareWith) : db[owner].shareWith[i] = viewer

GetSharedCycle(viewer, t, owner) ==
    /\ now' = t
    /\ UNCHANGED <<db, cache, pc, loc, duplicates, conns, notifications, errlog>>
    /\ IF owner \notin WellFormedIds
       THEN res' = Refusal(viewer, owner, 500, "Failed to get user cycle data")
       ELSE IF ~IsConnected(viewer, owner)
       THEN res' = Refusal(viewer, owner, 403,
                           "You are not connected with this user")
       ELSE IF ~IsSharedWith(viewer, owner)
       THEN res' = Refusal(viewer, owner, 403,
                           "User is not sharing cycle data with you")
       ELSE res' = SharedBody(viewer, owner, db[owner])

----------------------------------------------------------------------------
(* GET / behind the cacheCycle middleware                                  *)

\* the forecast of the superseded route: always the calculated one
CycleBody_Predicted(u, cycle) ==
    [user |-> u, op |-> "getCycle", status |-> 200, error |-> "",
     cycleLength |-> cycle.cycleLength,
     periodLength |-> cycle.periodLength,
     isTracking |-> cycle.isTracking,
     nextPeriod |-> getNextPeriod([cycle EXCEPT !.expectedNextPeriod = NoExpected]),
     hasOngoingPeriod |-> LastIsOngoing(cycle.periods)]

\* the body built by the handler from the loaded document
CycleBody(u, cycle) ==
    [user |-> u, op |-> "getCycle", status |-> 200, error |-> "",
     cycleLength |-> cycle.cycleLength,
     periodLength |-> cycle.periodLength,
     isTracking |-> cycle.isTracking,
     nextPeriod |-> getNextPeriod(cycle),
     hasOngoingPeriod |-> LastIsOngoing(cycle.periods)]

GetCycle(u, t) ==
    /\ now' = t
    /\ UNCHANGED <<pc, loc, duplicates, conns, notifications, errlog>>
    /\ IF u \in DOMAIN LiveCache(t)
       THEN /\ res' = LiveCache(t)[u]
            /\ db' = db
            /\ cache' = LiveCache(t)
       ELSE LET cycle == FindOrCreate(u)
            IN  /\ db' = Save(u, cycle)
                /\ res' = CycleBody(u, cycle)
                /\ cache' = [x \in DOMAIN LiveCache(t) \cup {u} |->
                                IF x = u THEN CycleBody(u, cycle)
                                ELSE LiveCache(t)[x]]

----------------------------------------------------------------------------

Init ==
    /\ db = [x \in {} |-> <<>>]
    /\ cache = [x \in {} |-> <<>>]
    /\ res = Reply("", "none", 0, "")
    /\ now = 40
    /\ pc = [p \in {} |-> ""]
    /\ conns = [x \in {} |-> ""]
    /\ notifications = {}
    /\ errlog = {}
    /\ duplicates = {}
    /\ loc = [p \in {} |-> <<>>]

\* the instants of clock at which the next request can be handled
Later(clock) == {c \in clock : c >= now}

\* the period ledger: start, end, log, delete, clear
Next ==
    \/ \E u \in Users, t \in Later(Clock), d \in Dates, f \in FlowArgs :
          StartPeriod(u, t, d, f, MaxPeriods)
    \/ \E u \in Users, t \in Later(Clock), d \in Dates :
          EndPeriod(u, t, d)
    \/ \E u \in Users, t \in Later(Clock), a \in LogArgs, f \in FlowArgs :
          LogPeriod(u, t, a[1], a[2], f, MaxPeriods)
    \/ \E u \in Users, t \in Later(Clock), i \in 0..MaxPeriods :
          DeletePeriod(u, t, i)
    \/ \E u \in Users, t \in Later(Clock) :
          ClearPeriods(u, t)

Spec == Init /\ [][Next]_vars

----------------------------------------------------------------------------
(* The error taxonomy of the specification over the routes' error texts    *)

ConflictErrors ==
    {"There is already an ongoing period. Please end it first.",
     "No ongoing period to end",
     "This period overlaps with an existing period"}

ValidationErrors ==
    {"End date cannot be before start date",
     "Date must be within 1 year of today",
     "Expected period start date must be today or in the future",
     "Expected period date must be within 60 days from today",
     "validation"}

Ongoing(periods) == {i \in 1..Len(periods) : periods[i].endDate = Null}

\* the end of a period's effective interval: open periods last 7 days
EffectiveEnd(p) ==
    IF p.endDate # Null THEN p.endDate ELSE p.startDate + SevenDaysUnits

----------------------------------------------------------------------------
(* Claims about the period ledger, checked under Spec                      *)

\* C1: at most one period of a profile's ledger is ongoing (endDate null)
\* in every state reachable by startPeriod, endPeriod, logPeriod,
\* deletePeriod and clearPeriods.
C1_AtMostOneOngoing ==
    \A u \in DOMAIN db : Cardinality(Ongoing(db[u].periods)) <= 1

\* C2: no two periods of a profile's ledger have overlapping effective
\* intervals [startDate, effectiveEnd].
C2_NoOverlap ==
    \A u \in DOMAIN db :
        \A i, j \in 1..Len(db[u].periods) :
            i < j =>
                ~ (/\ db[u].periods[i].startDate <= EffectiveEnd(db[u].periods[j])
                   /\ db[u].periods[j].startDate <= EffectiveEnd(db[u].periods[i]))

\* C4: startPeriod called while some period of the ledger is ongoing fails
\* with ConflictError and leaves the profile unchanged.
C4_StartWhileOngoingRejected ==
    [][\A u \in Users :
          (/\ res'.op = "startPeriod" /\ res'.user = u
           /\ HasCycle(u)
           /\ Ongoing(db[u].periods) # {})
          => (/\ res'.status = 400
              /\ res'.error \in ConflictErrors
              /\ db' = db)]_vars

\* C5: endPeriod called on a profile none of whose periods is ongoing (the
\* ledger is empty or every period has an endDate) fails with ConflictError
\* and leaves the profile unchanged.
C5_EndWithoutOngoingRejected ==
    [][\A u \in Users :
          (/\ res'.op = "endPeriod" /\ res'.user = u
           /\ HasCycle(u)
           /\ Ongoing(db[u].periods) = {})
          => (/\ res'.status = 400
              /\ res'.error \in ConflictErrors
              /\ db' = db)]_vars

\* endPeriod has been refused on a ledger whose periods are all completed
C5_Witness ==
    /\ res.op = "endPeriod"
    /\ res.error = "No ongoing period to end"
    /\ HasCycle(res.user)
    /\ Len(db[res.user].periods) > 0
    /\ Ongoing(db[res.user].periods) = {}

\* C6: every completed period of the ledger has endDate >= startDate,
\* whether endPeriod completed it or logPeriod inserted it.
C6_EndNotBeforeStart ==
    \A u \in DOMAIN db :
        \A i \in 1..Len(db[u].periods) :
            db[u].periods[i].endDate # Null =>
                db[u].periods[i].endDate >= db[u].periods[i].startDate


\* C12: a successful deletePeriod removes one period and recomputes
\* lastPeriodStart / lastPeriodEnd from the remaining ledger: null and null
\* when it is empty, the bounds of a completed period of greatest startDate
\* when one remains, else the greatest startDate and null.
C12_DeleteRecomputesLast ==
    [][\A u \in Users :
          (res'.op = "deletePeriod" /\ res'.user = u /\ res'.status = 200)
          => LET rest == db'[u].periods
                 done == {i \in 1..Len(rest) : rest[i].endDate # Null}
             IN  /\ Len(rest) = Len(db[u].periods) - 1
                 /\ \A i \in 1..Len(rest) :
                        \E j \in 1..Len(db[u].periods) :
                            rest[i] = db[u].periods[j]
                 /\ IF Len(rest) = 0
                    THEN /\ db'[u].lastPeriodStart = Null
                         /\ db'[u].lastPeriodEnd = Null
                    ELSE IF done # {}
                    THEN \E i \in done :
                            /\ \A j \in done :
                                   rest[j].startDate <= rest[i].startDate
                            /\ db'[u].lastPeriodStart = rest[i].startDate
                            /\ db'[u].lastPeriodEnd = rest[i].endDate
                    ELSE /\ \E i \in 1..Len(rest) :
                                db'[u].lastPeriodStart = rest[i].startDate
                         /\ \A j \in 1..Len(rest) :
                                rest[j].startDate <= db'[u].lastPeriodStart
                         /\ db'[u].lastPeriodEnd = Null]_vars

\* a delete has left a completed period and a later ongoing one, and
\* lastPeriodStart / lastPeriodEnd are the completed period's
C12_Witness ==
    /\ res.op = "deletePeriod" /\ res.status = 200
    /\ res.remainingPeriods = 2
    /\ db[res.user].periods[1].endDate # Null
    /\ db[res.user].periods[2].endDate = Null
    /\ db[res.user].periods[1].startDate < db[res.user].periods[2].startDate
    /\ db[res.user].lastPeriodStart = db[res.user].periods[1].startDate
    /\ db[res.user].lastPeriodEnd = db[res.user].periods[1].endDate

----------------------------------------------------------------------------
(* The manual forecast: set, clear and read it around real periods         *)

NextForecast ==
    \/ \E u \in Users, t \in Later(ForecastClock), a \in ExpectedArgs :
          SetExpectedPeriod(u, t, a[1], a[2])
    \/ \E u \in Users, t \in Later(ForecastClock) :
          ClearExpectedPeriod(u, t)
    \/ \E u \in Users, t \in Later(ForecastClock) :
          GetCycle(u, t)
    \/ \E u \in Users, t \in Later(ForecastClock), a \in SettingsArgs :
          UpdateSettings(u, t, a[1], a[2], a[3])
    \/ \E u \in Users, t \in Later(ForecastClock) :
          StartPeriod(u, t, Null, "", MaxForecastPeriods)
    \/ \E u \in Users, t \in Later(ForecastClock) :
          EndPeriod(u, t, Null)
    \/ \E u \in Users, t \in Later(ForecastClock) :
          ClearPeriods(u, t)

SpecForecast == Init /\ [][NextForecast]_vars

ManualOverride(cycle) ==
    /\ cycle.expectedNextPeriod.isManuallySet
    /\ cycle.expectedNextPeriod.startDate # Null

----------------------------------------------------------------------------
(* The adaptive estimator: startPeriod and endPeriod applied to profiles   *)
(* with every cycleLength of the domain beside the default periodLength    *)
(* and every periodLength beside the default cycleLength (neither          *)
(* estimate reads the other)                                               *)

\* the profile left by logPeriod(0, 8) followed by updateSettings(cl, pl)
EstCycle(cl, pl) ==
    [NewCycle(cl, pl, TRUE) EXCEPT
        !.periods = <<[startDate |-> 0, endDate |-> 8, flow |-> "medium"]>>,
        !.lastPeriodStart = 0,
        !.lastPeriodEnd = 8]

InitEst ==
    /\ \E cl \in 21..45, pl \in 1..10 :
          /\ cl = 28 \/ pl = 5
          /\ db = [u \in Users |-> EstCycle(cl, pl)]
    /\ cache = [x \in {} |-> <<>>]
    /\ res = Reply("", "none", 0, "")
    /\ now = 100
    /\ pc = [p \in {} |-> ""]
    /\ conns = [x \in {} |-> ""]
    /\ notifications = {}
    /\ errlog = {}
    /\ duplicates = {}
    /\ loc = [p \in {} |-> <<>>]

NextEst ==
    \/ \E u \in Users, t \in Later(EstClock), d \in EstStartDates :
          StartPeriod(u, t, d, "", MaxEstPeriods)
    \/ \E u \in Users, t \in Later(EstClock), k \in EstEndOffsets :
          /\ HasCycle(u)
          /\ Len(db[u].periods) > 0
          /\ EndPeriod(u, t, Last(db[u].periods).startDate + k)

SpecEst == InitEst /\ [][NextEst]_vars

\* the number of days in diff time units, rounded to the nearest day (a
\* half day rounds up)
RoundedDays(diff) ==
    CHOOSE d \in (diff \div DayUnits - 1)..(diff \div DayUnits + 1) :
        DayUnits * d - 1 <= diff /\ diff <= DayUnits * d

\* new is an integer nearest to 0.7 * old + 0.3 * observed
IsSmoothed(new, old, observed) ==
    /\ 10 * new - 5 <= 7 * old + 3 * observed
    /\ 7 * old + 3 * observed <= 10 * new + 5

----------------------------------------------------------------------------
(* The domains of cycleLength and periodLength under every operation that  *)
(* writes them                                                             *)

NextRange ==
    \/ \E u \in Users, t \in Later(EstClock), d \in RangeStartDates :
          StartPeriod(u, t, d, "", MaxRangePeriods)
    \/ \E u \in Users, t \in Later(EstClock), k \in RangeEndOffsets :
          /\ HasCycle(u)
          /\ Len(db[u].periods) > 0
          /\ EndPeriod(u, t, Last(db[u].periods).startDate + k)
    \/ \E u \in Users, t \in Later(EstClock), a \in RangeLogArgs :
          LogPeriod(u, t, a[1], a[2], "", MaxRangePeriods)
    \/ \E u \in Users, t \in Later(EstClock), a \in RangeSettingsArgs :
          UpdateSettings(u, t, a[1], a[2], a[3])
    \/ \E u \in Users, t \in Later(EstClock), i \in 0..MaxRangePeriods :
          DeletePeriod(u, t, i)
    \/ \E u \in Users, t \in Later(EstClock) :
          ClearPeriods(u, t)

InitRange ==
    /\ db = [x \in {} |-> <<>>]
    /\ cache = [x \in {} |-> <<>>]
    /\ res = Reply("", "none", 0, "")
    /\ now = 100
    /\ pc = [p \in {} |-> ""]
    /\ conns = [x \in {} |-> ""]
    /\ notifications = {}
    /\ errlog = {}
    /\ duplicates = {}
    /\ loc = [p \in {} |-> <<>>]

SpecRange == InitRange /\ [][NextRange]_vars

\* C9: in every reachable state of a profile cycleLength is an integer in
\* 21..45 and periodLength an integer in 1..10.
C9_LengthsInDomain ==
    \A u \in DOMAIN db :
        /\ db[u].cycleLength \in 21..45
        /\ db[u].periodLength \in 1..10

\* both lengths sit at the upper end of their domains after the estimator
\* has run on them: a period 45 days after the previous one has been
\* started and ended
C9_Witness ==
    /\ res.op = "endPeriod" /\ res.status = 200
    /\ db[res.user].cycleLength = 45
    /\ db[res.user].periodLength = 10
    /\ Len(db[res.user].periods) = 2
    /\ DaysBetween(db[res.user].periods[2].startDate,
                   db[res.user].periods[1].startDate) = 45

----------------------------------------------------------------------------
(* Two POST /period/start requests of one user in flight at once.  The     *)
(* handler yields at each await: findOne, create, save.  What lies between *)
(* two awaits runs without interruption.                                   *)

\* the profiles the race can start from: none, a fresh one, one with a
\* completed period, one with an ongoing period
RaceProfiles ==
    LET fresh == NewCycle(28, 5, TRUE)
        started == StartedCycle(fresh, 0, "medium")
    IN  {<<>>, <<fresh>>, <<EndedCycle(started, 10)>>, <<started>>}

\* let cycle = await Cycle.findOne({ userId })
Race_Find(p, u) ==
    /\ pc[p] = "find"
    /\ loc' = [loc EXCEPT ![p].read = IF HasCycle(u) THEN <<db[u]>> ELSE <<>>]
    /\ pc' = [pc EXCEPT ![p] = IF HasCycle(u) THEN "check" ELSE "create"]
    /\ UNCHANGED <<db, cache, res, now>>
    /\ UNCHANGED <<conns, notifications, errlog, duplicates>>

\* a collection whose userId index was never built
DuplicateKey_NoIndex(u) == FALSE

\* userId: { unique: true }: an insert of a second document with the userId
\* of a stored one throws E11000
DuplicateKey(u) == HasCycle(u)

\* cycle = await Cycle.create({...}): userId is unique, so the insert of the
\* request that comes second throws and the handler answers 500
Race_Create(p, u) ==
    /\ pc[p] = "create"
    /\ IF DuplicateKey(u)
       THEN /\ pc' = [pc EXCEPT ![p] = "failed"]
            /\ res' = Reply(u, "startPeriod", 500, "Failed to start period")
            /\ UNCHANGED <<db, loc, duplicates>>
       ELSE /\ IF HasCycle(u)
               THEN /\ duplicates' = duplicates \cup
                          {[userId |-> u, request |-> p,
                            cycle |-> NewCycle(28, 5, TRUE)]}
                    /\ db' = db
               ELSE /\ db' = Save(u, NewCycle(28, 5, TRUE))
                    /\ UNCHANGED duplicates
            /\ loc' = [loc EXCEPT ![p].read = <<NewCycle(28, 5, TRUE)>>]
            /\ pc' = [pc EXCEPT ![p] = "check"]
            /\ UNCHANGED res
    /\ UNCHANGED <<cache, now>>
    /\ UNCHANGED <<conns, notifications, errlog>>

\* the ongoing check and the changes to the document in memory
Race_Check(p, u) ==
    /\ pc[p] = "check"
    /\ LET cycle == loc[p].read[1]
       IN  IF LastIsOngoing(cycle.periods)
           THEN /\ pc' = [pc EXCEPT ![p] = "rejected"]
                /\ res' = Reply(u, "startPeriod", 400,
                        "There is already an ongoing period. Please end it first.")
                /\ UNCHANGED loc
           ELSE /\ loc' = [loc EXCEPT ![p].cycle =
                              <<StartedCycle(cycle, loc[p].startDate, "medium")>>]
                /\ pc' = [pc EXCEPT ![p] = "save"]
                /\ UNCHANGED res
    /\ UNCHANGED <<db, cache, now>>
    /\ UNCHANGED <<conns, notifications, errlog, duplicates>>

\* what save() writes: the pushed period is appended to the stored array
\* ($push, no version condition), a changed path is set, and a path the
\* handler left as it was read is not written
SavedDelta(stored, read, cycle) ==
    [stored EXCEPT
        !.periods = Append(stored.periods, Last(cycle.periods)),
        !.cycleLength = IF cycle.cycleLength # read.cycleLength
                        THEN cycle.cycleLength ELSE @,
        !.lastPeriodStart = IF cycle.lastPeriodStart # read.lastPeriodStart
                            THEN cycle.lastPeriodStart ELSE @,
        !.expectedNextPeriod = IF cycle.expectedNextPeriod # read.expectedNextPeriod
                               THEN cycle.expectedNextPeriod ELSE @]

\* await cycle.save(), the cache invalidation and the response
Race_Save(p, u) ==
    /\ pc[p] = "save"
    /\ LET saved == SavedDelta(db[u], loc[p].read[1], loc[p].cycle[1])
       IN  /\ db' = Save(u, saved)
           /\ res' = [user |-> u, op |-> "startPeriod", status |-> 200,
                      error |-> "",
                      period |-> Last(loc[p].cycle[1].periods),
                      cameEarly |-> CameEarly(loc[p].read[1], loc[p].startDate),
                      event |-> StartEvent(CameEarly(loc[p].read[1],
                                                     loc[p].startDate)),
                      nextPeriod |-> getNextPeriod(loc[p].cycle[1])]
    /\ cache' = Invalidate(cache, u)
    /\ pc' = [pc EXCEPT ![p] = "ok"]
    /\ UNCHANGED <<loc, now>>
    /\ UNCHANGED <<conns, notifications, errlog, duplicates>>

InitRace ==
    /\ \E profile \in RaceProfiles :
          db = [x \in (IF profile = <<>> THEN {} ELSE Users) |-> profile[1]]
    /\ cache = [x \in {} |-> <<>>]
    /\ res = Reply("", "none", 0, "")
    /\ now = 40
    /\ pc = [p \in Requests |-> "find"]
    /\ conns = [x \in {} |-> ""]
    /\ notifications = {}
    /\ errlog = {}
    /\ duplicates = {}
    /\ \E dates \in [Requests -> RaceStartDates] :
          loc = [p \in Requests |->
                    [read |-> <<>>, cycle |-> <<>>, startDate |-> dates[p]]]

NextRace ==
    \/ \E p \in Requests, u \in Users : Race_Find(p, u)
    \/ \E p \in Requests, u \in Users : Race_Create(p, u)
    \/ \E p \in Requests, u \in Users : Race_Check(p, u)
    \/ \E p \in Requests, u \in Users : Race_Save(p, u)

SpecRace == InitRace /\ [][NextRace]_vars

\* the Cycle documents stored with userId u
ProfileCount(u) ==
    (IF HasCycle(u) THEN 1 ELSE 0)
    + Cardinality({d \in duplicates : d.userId = u})

\* C21: there is at most one profile per user in every reachable state,
\* also when two first-time operations of one user, each finding no profile
\* and creating one, run concurrently.
C21_OneProfilePerUser == \A u \in Users : ProfileCount(u) <= 1

\* both requests found no profile and went on to create one; the first
\* insert stored the profile and the second was refused
C21_Witness ==
    /\ \E p \in Requests, q \in Requests :
          /\ pc[p] = "failed"
          /\ pc[q] \in {"check", "save", "ok"}
          /\ loc[p].read = <<>>
    /\ \A u \in Users : ProfileCount(u) = 1

\* C3: of two concurrent startPeriod calls on one profile at most one
\* succeeds, and the stored ledger never holds two ongoing periods.
C3_AtMostOneStartSucceeds ==
    /\ ~(\A p \in Requests : pc[p] = "ok")
    /\ \A u \in DOMAIN db : Cardinality(Ongoing(db[u].periods)) <= 1

----------------------------------------------------------------------------
(* Sharing: connections come and go, owners choose whom to share with,     *)
(* viewers read                                                            *)

NextSharing ==
    \/ \E a \in People, b \in People : RequestConnection(a, b)
    \/ \E u \in People, c \in People \X People : AcceptConnection(u, c)
    \/ \E u \in People, c \in People \X People : RemoveConnection(u, c)
    \/ \E u \in People, c \in People \X People : BlockConnection(u, c)
    \/ \E u \in People, t \in Later(Clock), a \in SharingArgs :
          UpdateSharing(u, t, a)
    \/ \E v \in People, t \in Later(Clock), o \in OwnerArgs :
          GetSharedCycle(v, t, o)
    \/ \E u \in Users, t \in Later(Clock) :
          StartPeriod(u, t, Null, "", MaxSharingPeriods)

SpecSharing == Init /\ [][NextSharing]_vars

\* an accepted connection document exists between a and b
AcceptedRelationship(a, b) ==
    \/ <<a, b>> \in DOMAIN conns /\ conns[<<a, b>>] = "accepted"
    \/ <<b, a>> \in DOMAIN conns /\ conns[<<b, a>>] = "accepted"

\* C38: every cycle change notification about owner O is delivered only to
\* users who, at the time of emission, are in O.shareWith and have an
\* accepted relationship with O; a user whose relationship was removed or
\* blocked after being added to shareWith receives none.
C38_NotifiedOnlyWhileAccepted ==
    [][\A n \in notifications' \ notifications :
          /\ n.senderId \in DOMAIN db'
          /\ n.receiverId \in SharedUsers(db'[n.senderId])
          /\ AcceptedRelationship(n.senderId, n.receiverId)]_vars

\* C14: updateSharing answers success whatever ids the candidate list holds
\* and stores exactly the candidates with which the caller has an accepted
\* relationship at the time of the call, in the order given.
C14_SharingKeepsAcceptedOnly ==
    [][\A u \in People :
          (res'.op = "updateSharing" /\ res'.user = u /\ res'.error # "validation")
          => /\ res'.status = 200
             /\ db'[u].shareWith =
                    SelectSeq(res'.candidates,
                              LAMBDA id : AcceptedRelationship(u, id))
             /\ res'.shareWith = db'[u].shareWith]_vars

\* a list holding an unknown id and an accepted connection has been stored
\* as the accepted connection alone
C14_Witness ==
    /\ res.op = "updateSharing" /\ res.status = 200
    /\ res.candidates = <<"zz", "u2">>
    /\ db[res.user].shareWith = <<"u2">>

\* C15: getSharedCycle answers with the owner's cycle only when an accepted
\* relationship exists between viewer and owner and the viewer is in the
\* owner's shareWith at the time of the call; otherwise it is refused with
\* 403.
C15_SharedReadNeedsBoth ==
    [][\A v \in People, o \in WellFormedIds :
          (res'.op = "getSharedCycle" /\ res'.user = v /\ res'.owner = o)
          => IF /\ AcceptedRelationship(v, o)
                /\ o \in DOMAIN db
                /\ \E i \in 1..Len(db[o].shareWith) : db[o].shareWith[i] = v
             THEN /\ res'.status = 200
                  /\ res'.cycleLength = db[o].cycleLength
                  /\ res'.periodLength = db[o].periodLength
                  /\ res'.hasOngoingPeriod = (Ongoing(db[o].periods) # {})
             ELSE res'.status = 403]_vars

\* a viewer still in the owner's shareWith has been refused after the
\* connection was blocked
C15_Witness ==
    /\ res.op = "getSharedCycle" /\ res.status = 403
    /\ res.owner \in DOMAIN db
    /\ \E i \in 1..Len(db[res.owner].shareWith) :
          db[res.owner].shareWith[i] = res.user
    /\ \E c \in DOMAIN conns : conns[c] = "blocked"

\* the ledger of u, empty while u has no profile
Ledger(u) == IF HasCycle(u) THEN db[u].periods ELSE <<>>

\* the entries of the ledger of u whose interval meets that of the period p,
\* both ends included, an open period lasting 7 days
Conflicting(u, p) ==
    {i \in 1..Len(Ledger(u)) :
        /\ p.startDate <= EffectiveEnd(Ledger(u)[i])
        /\ EffectiveEnd(p) >= Ledger(u)[i].startDate}

\* C24: a logPeriod request that passes validation is rejected with the
\* overlap error, reporting the start date of a conflicting period and
\* leaving the ledger unchanged, exactly when some existing period satisfies
\* newStart <= existingEnd and newEnd >= existingStart, an open new or
\* existing period being given the end startDate + 7 days; the boundaries
\* are inclusive.
C24_OverlapRejectedExactly ==
    [][\A u \in Users :
          (res'.op = "logPeriod" /\ res'.user = u)
          => /\ res'.status = 200 => Conflicting(u, res'.period) = {}
             /\ res'.error = "This period overlaps with an existing period"
                   => /\ res'.status = 400
                      /\ \E i \in Conflicting(u, res'.request) :
                            res'.overlapsWithStart =
                                Ledger(u)[i].startDate \div DayUnits
                      /\ db' = db
             /\ res'.status = 400 =>
                   res'.error \in ConflictErrors \cup ValidationErrors]_vars

\* a period starting at the instant an earlier period ends has been rejected
C24_Witness ==
    /\ res.op = "logPeriod" /\ res.status = 400
    /\ res.error = "This period overlaps with an existing period"
    /\ \E i \in 1..Len(Ledger(res.user)) :
          /\ Ledger(res.user)[i].endDate = res.request.startDate
          /\ Ledger(res.user)[i].startDate < res.request.startDate
          /\ res.overlapsWithStart = Ledger(res.user)[i].startDate \div DayUnits

\* the date given to the endPeriod request answered last
EndDateGiven == IF res.status = 200 THEN res.period.endDate ELSE res.date

\* C25: whenever the ledger contains an ongoing period and the given date is
\* not before that period's start, endPeriod succeeds, sets that period's
\* endDate and lastPeriodEnd to the date and changes no other period.
C25_EndOngoingSucceeds ==
    [][\A u \in Users :
          (res'.op = "endPeriod" /\ res'.user = u /\ HasCycle(u))
          => \A i \in Ongoing(db[u].periods) :
                EndDateGiven' >= db[u].periods[i].startDate
                => /\ res'.status = 200
                   /\ Len(db'[u].periods) = Len(db[u].periods)
                   /\ db'[u].periods[i].endDate = EndDateGiven'
                   /\ db'[u].lastPeriodEnd = EndDateGiven'
                   /\ \A j \in 1..Len(db[u].periods) :
                         j # i => db'[u].periods[j] = db[u].periods[j]]_vars

\* C28: in every reachable state with a non-empty ledger lastPeriodStart is
\* the startDate of some period P of the ledger and lastPeriodEnd is null or
\* the endDate of that same P; with an empty ledger both are null.
C28_LastFieldsDescribeOnePeriod ==
    \A u \in DOMAIN db :
        IF Len(db[u].periods) = 0
        THEN db[u].lastPeriodStart = Null /\ db[u].lastPeriodEnd = Null
        ELSE \E i \in 1..Len(db[u].periods) :
                /\ db[u].lastPeriodStart = db[u].periods[i].startDate
                /\ \/ db[u].lastPeriodEnd = Null
                   \/ db[u].lastPeriodEnd = db[u].periods[i].endDate

\* C20: after every operation (startPeriod with any date, logPeriod,
\* endPeriod, deletePeriod) the stored ledger is ordered by startDate
\* ascending, so its last element is the period with the greatest startDate.
C20_LedgerSorted ==
    \A u \in DOMAIN db :
        \A i \in 1..Len(db[u].periods), j \in 1..Len(db[u].periods) :
            i < j => db[u].periods[i].startDate <= db[u].periods[j].startDate

----------------------------------------------------------------------------
(* What each operation leaves behind: on success, on refusal, and when the *)
(* notification of the shared users fails                                  *)

\* u2 has asked u1 for a connection, u1 has accepted and shares with u2
SharedProfile == [NewCycle(28, 5, TRUE) EXCEPT !.shareWith = <<"u2">>]

InitOutcome ==
    /\ \/ /\ db = [x \in {} |-> <<>>]
          /\ conns = [x \in {} |-> ""]
       \/ /\ db = [x \in Users |-> SharedProfile]
          /\ conns = [x \in {<<"u2", "u1">>} |-> "accepted"]
    /\ cache = [x \in {} |-> <<>>]
    /\ res = Reply("", "none", 0, "")
    /\ now = 40
    /\ pc = [p \in {} |-> ""]
    /\ loc = [p \in {} |-> <<>>]
    /\ notifications = {}
    /\ errlog = {}
    /\ duplicates = {}

NextOutcome ==
    \/ \E u \in Users, t \in Later(Clock) :
          StartPeriod(u, t, Null, "", MaxOutcomePeriods)
    \/ \E u \in Users, t \in Later(Clock), d \in OutcomeEndDates :
          EndPeriod(u, t, d)
    \/ \E u \in Users, t \in Later(Clock), a \in OutcomeLogArgs :
          LogPeriod(u, t, a[1], a[2], "", MaxOutcomePeriods)
    \/ \E u \in Users, t \in Later(Clock), i \in 0..MaxOutcomePeriods :
          DeletePeriod(u, t, i)
    \/ \E u \in Users, t \in Later(Clock), a \in OutcomeExpectedArgs :
          SetExpectedPeriod(u, t, a[1], a[2])
    \/ \E v \in People, t \in Later(Clock), o \in People :
          GetSharedCycle(v, t, o)
    \/ \E u \in Users, t \in Later(Clock) :
          ClearPeriods(u, t)
    \/ \E u \in Users, t \in Later(Clock) :
          LogSymptom(u, t, "cramps", Null, MaxSymptoms)
    \/ \E u \in Users, t \in Later(Clock) :
          UpdateSettings(u, t, Null, Null, "false")

SpecOutcome == InitOutcome /\ [][NextOutcome]_vars

\* C13: clearPeriods on an existing profile leaves an empty ledger,
\* lastPeriodStart and lastPeriodEnd null, expectedNextPeriod cleared,
\* cycleLength 28 and periodLength 5, and leaves symptoms, shareWith and
\* isTracking as they were.
C13_ClearResetsLedgerOnly ==
    [][\A u \in Users :
          (res'.op = "clearPeriods" /\ res'.user = u /\ HasCycle(u))
          => /\ res'.status = 200
             /\ db'[u].periods = <<>>
             /\ db'[u].lastPeriodStart = Null
             /\ db'[u].lastPeriodEnd = Null
             /\ db'[u].expectedNextPeriod =
                    [startDate |-> Null, endDate |-> Null,
                     isManuallySet |-> FALSE]
             /\ db'[u].cycleLength = 28
             /\ db'[u].periodLength = 5
             /\ db'[u].symptoms = db[u].symptoms
             /\ db'[u].shareWith = db[u].shareWith
             /\ db'[u].isTracking = db[u].isTracking]_vars

\* periods have been cleared from a profile that holds a symptom, is shared
\* and has tracking switched off
C13_Witness ==
    /\ res.op = "clearPeriods" /\ res.status = 200
    /\ res.deletedCount > 0
    /\ db[res.user].periods = <<>>
    /\ Len(db[res.user].symptoms) > 0
    /\ Len(db[res.user].shareWith) > 0
    /\ ~db[res.user].isTracking

\* the operations that change a profile and can refuse, and the shared read
RefusingOps ==
    {"startPeriod", "endPeriod", "logPeriod", "deletePeriod",
     "setExpectedPeriod", "getSharedCycle"}

\* C16: whenever startPeriod, endPeriod, logPeriod, deletePeriod,
\* setExpectedPeriod or getSharedCycle answers with a validation, conflict,
\* not-found or permission error, every stored profile is identical to what
\* it was before the call.
C16_RefusalChangesNothing ==
    [][(res'.op \in RefusingOps /\ res'.status \in {400, 403, 404})
       => db' = db]_vars

\* a logged period has been refused for overlapping a period of a profile
\* whose estimates, forecast and sharing list are no longer the defaults
C16_Witness ==
    /\ res.op = "logPeriod" /\ res.status = 400
    /\ res.error = "This period overlaps with an existing period"
    /\ Len(db[res.user].periods) > 0
    /\ db[res.user].lastPeriodStart # Null
    /\ db[res.user].expectedNextPeriod.isManuallySet
    /\ Len(db[res.user].shareWith) > 0

\* the operations that notify the shared users
NotifyingOps == {"startPeriod", "endPeriod", "logPeriod", "setExpectedPeriod"}

\* the shared users of u that hold no notification from u
Unnotified(u) ==
    {x \in SharedUsers(db[u]) :
        [senderId |-> u, receiverId |-> x, type |-> "cycle"] \notin notifications}

\* the profile of u holds what the successful response of the last call reports
Persisted(u) ==
    /\ HasCycle(u)
    /\ res.op = "startPeriod" =>
          /\ Len(db[u].periods) > 0
          /\ Last(db[u].periods) = res.period
          /\ db[u].lastPeriodStart = res.period.startDate
    /\ res.op = "endPeriod" =>
          /\ Len(db[u].periods) > 0
          /\ Last(db[u].periods) = res.period
          /\ res.period.endDate # Null
          /\ db[u].lastPeriodEnd = res.period.endDate
    /\ res.op = "logPeriod" =>
          \E i \in 1..Len(db[u].periods) : db[u].periods[i] = res.period
    /\ res.op = "setExpectedPeriod" =>
          db[u].expectedNextPeriod = res.expectedNextPeriod

\* C17: a failure of the notification collaborator during startPeriod,
\* endPeriod, logPeriod or setExpectedPeriod never fails or rolls back the
\* mutation: a call that is not refused answers success, whether or not the
\* shared users were notified, and the profile holds the change.
C17_NotifyFailureKeepsMutation ==
    [][\A u \in Users :
          (res'.op \in NotifyingOps /\ res'.user = u
             /\ res'.status \notin {400, 404})
          => /\ res'.status = 200
             /\ Persisted(u)']_vars

\* a period was started on a shared profile, the notification failed and was
\* logged, the shared user holds no notification, and the start is stored
C17_Witness ==
    /\ res.op = "startPeriod" /\ res.status = 200
    /\ HasCycle(res.user)
    /\ db[res.user].shareWith = <<"u2">>
    /\ Unnotified(res.user) = {"u2"}
    /\ "Error notifying cycle update" \in errlog
    /\ Last(db[res.user].periods) = res.period

----------------------------------------------------------------------------
(* The phase calculator applied to profiles with and without a last period *)

\* the profile left by startPeriod at lps followed by updateSettings(cl, pl)
PhaseCycle(lps, cl, pl) ==
    IF lps = Null THEN NewCycle(cl, pl, TRUE)
    ELSE [NewCycle(cl, pl, TRUE) EXCEPT
             !.periods = <<[startDate |-> lps, endDate |-> Null,
                            flow |-> "medium"]>>,
             !.lastPeriodStart = lps]

InitPhase ==
    /\ \E lps \in PhaseStarts, cl \in PhaseCycleLengths,
          pl \in PhasePeriodLengths :
          db = [u \in Users |-> PhaseCycle(lps, cl, pl)]
    /\ now \in 0..MaxElapsed
    /\ cache = [x \in {} |-> <<>>]
    /\ res = Reply("", "none", 0, "")
    /\ pc = [p \in {} |-> ""]
    /\ loc = [p \in {} |-> <<>>]
    /\ conns = [x \in {} |-> ""]
    /\ notifications = {}
    /\ errlog = {}
    /\ duplicates = {}

CurrentCycleDay(u) ==
    /\ res' = [user |-> u, op |-> "getCurrentCycleDay", status |-> 200,
               error |-> "", cycleDay |-> getCurrentCycleDay(db[u], now)]
    /\ UNCHANGED <<db, cache, now, pc, loc, duplicates, conns, notifications, errlog>>

CurrentPhase(u) ==
    /\ res' = [user |-> u, op |-> "getCurrentPhase", status |-> 200,
               error |-> "", currentPhase |-> getCurrentPhase(db[u], now)]
    /\ UNCHANGED <<db, cache, now, pc, loc, duplicates, conns, notifications, errlog>>

NextPhase ==
    \/ \E u \in Users : CurrentCycleDay(u)
    \/ \E u \in Users : CurrentPhase(u)

SpecPhase == InitPhase /\ [][NextPhase]_vars

\* whole days from lastPeriodStart to now, a started day counting as one
ElapsedDays(u) ==
    CHOOSE n \in 0..(MaxElapsed + 4) :
        /\ n * DayUnits >= Abs(now - db[u].lastPeriodStart)
        /\ (n - 1) * DayUnits < Abs(now - db[u].lastPeriodStart)

\* the day of the cycle the profile of u is on, counted 1..cycleLength
CycleDayIs(u, day) ==
    /\ db[u].lastPeriodStart # Null
    /\ (ElapsedDays(u) - day) % db[u].cycleLength = 0

PhaseIs(phase) ==
    /\ Len(res.currentPhase) = 1
    /\ res.currentPhase[1].phase = phase

\* C18 as stated: for cycleLength 28 and periodLength 5, currentPhase() is
\* menstrual at cycleDay 3, follicular at cycleDay 14, ovulation at
\* cycleDay 15 and luteal at cycleDay 20.
C18_PhaseExamples ==
    \A u \in Users :
        (res.op = "getCurrentPhase" /\ res.user = u
           /\ db[u].cycleLength = 28 /\ db[u].periodLength = 5)
        => /\ CycleDayIs(u, 3) => PhaseIs("menstrual")
           /\ CycleDayIs(u, 14) => PhaseIs("follicular")
           /\ CycleDayIs(u, 15) => PhaseIs("ovulation")
           /\ CycleDayIs(u, 20) => PhaseIs("luteal")

\* C18 amended: for cycleLength 28 and periodLength 5, currentPhase() is
\* menstrual at cycleDay 3, ovulation at cycleDay 14, ovulation at
\* cycleDay 15 and luteal at cycleDay 20.
C18_PhaseExamplesAmended ==
    \A u \in Users :
        (res.op = "getCurrentPhase" /\ res.user = u
           /\ db[u].cycleLength = 28 /\ db[u].periodLength = 5)
        => /\ CycleDayIs(u, 3) => PhaseIs("menstrual")
           /\ CycleDayIs(u, 14) => PhaseIs("ovulation")
           /\ CycleDayIs(u, 15) => PhaseIs("ovulation")
           /\ CycleDayIs(u, 20) => PhaseIs("luteal")

\* the phase has been read on day 14 of a 28-day cycle with 5-day periods
C18_Witness ==
    /\ res.op = "getCurrentPhase"
    /\ db[res.user].cycleLength = 28 /\ db[res.user].periodLength = 5
    /\ CycleDayIs(res.user, 14)
    /\ PhaseIs("ovulation")
    /\ res.currentPhase[1].day = 14

\* C23: for every cycleDay in 1..45 and periodLength in 1..10,
\* currentPhase() is menstrual if cycleDay <= periodLength, else follicular
\* if cycleDay <= 13, else ovulation if cycleDay <= 16, else luteal,
\* whatever the cycleLength; it is null when there is no cycle day.
C23_PhaseBoundaries ==
    \A u \in Users :
        (res.op = "getCurrentPhase" /\ res.user = u)
        => /\ db[u].lastPeriodStart = Null <=> res.currentPhase = <<>>
           /\ \A day \in 1..45 :
                 (day <= db[u].cycleLength /\ CycleDayIs(u, day))
                 => /\ res.currentPhase[1].day = day
                    /\ PhaseIs(IF day <= db[u].periodLength THEN "menstrual"
                               ELSE IF day <= 13 THEN "follicular"
                               ELSE IF day <= 16 THEN "ovulation"
                               ELSE "luteal")

\* the phase has been read on day 16 of a 45-day cycle with 10-day periods
C23_Witness ==
    /\ res.op = "getCurrentPhase"
    /\ db[res.user].cycleLength = 45 /\ db[res.user].periodLength = 10
    /\ CycleDayIs(res.user, 16)
    /\ PhaseIs("ovulation")

\* C19: currentCycleDay() is null exactly when lastPeriodStart is null;
\* otherwise, for every number of elapsed days and every cycleLength of the
\* domain, it is an integer in 1..cycleLength, equal to the elapsed days
\* modulo cycleLength with remainder 0 mapped to cycleLength.
C19_CycleDayInRange ==
    \A u \in Users :
        (res.op = "getCurrentCycleDay" /\ res.user = u)
        => /\ res.cycleDay = Null <=> db[u].lastPeriodStart = Null
           /\ db[u].lastPeriodStart # Null =>
                 /\ res.cycleDay \in 1..db[u].cycleLength
                 /\ CycleDayIs(u, res.cycleDay)

\* the cycle day has been read after a whole number of cycles, the
\* remainder 0 giving cycleLength
C19_Witness ==
    /\ res.op = "getCurrentCycleDay"
    /\ db[res.user].lastPeriodStart # Null
    /\ ElapsedDays(res.user) = 2 * db[res.user].cycleLength
    /\ res.cycleDay = db[res.user].cycleLength

----------------------------------------------------------------------------
(* Two connected users in any interleaving: u1 issues every mutating       *)
(* operation, u2 starts periods, changes settings and shares                *)

InitUsers ==
    /\ db = [x \in {} |-> <<>>]
    /\ conns = [x \in {<<"u2", "u1">>} |-> "accepted"]
    /\ cache = [x \in {} |-> <<>>]
    /\ res = Reply("", "none", 0, "")
    /\ now = 40
    /\ pc = [p \in {} |-> ""]
    /\ loc = [p \in {} |-> <<>>]
    /\ notifications = {}
    /\ errlog = {}
    /\ duplicates = {}

NextUsers ==
    \/ \E u \in People, t \in Later(Clock) :
          StartPeriod(u, t, Null, "", MaxUsersPeriods)
    \/ \E u \in Users, t \in Later(Clock) :
          EndPeriod(u, t, Null)
    \/ \E u \in Users, t \in Later(Clock) :
          LogPeriod(u, t, 0, 1, "", MaxUsersPeriods)
    \/ \E u \in Users, t \in Later(Clock) :
          DeletePeriod(u, t, 0)
    \/ \E u \in Users, t \in Later(Clock) :
          ClearPeriods(u, t)
    \/ \E u \in People, t \in Later(Clock) :
          UpdateSettings(u, t, 30, 4, "")
    \/ \E u \in Users, t \in Later(Clock) :
          SetExpectedPeriod(u, t, 41, Null)
    \/ \E u \in People, t \in Later(Clock) :
          UpdateSharing(u, t, [isArray |-> TRUE, ids |-> <<"u1", "u2">>])
    \/ \E u \in Users, t \in Later(Clock) :
          LogSymptom(u, t, "cramps", Null, MaxSymptoms)

SpecUsers == InitUsers /\ [][NextUsers]_vars

MutatingOps ==
    {"startPeriod", "endPeriod", "logPeriod", "deletePeriod", "clearPeriods",
     "updateSettings", "setExpectedPeriod", "updateSharing", "logSymptom"}

\* C22: a mutating operation issued by one user (start, end, log, delete,
\* clear, settings, expected, sharing, symptom) leaves the profile of every
\* other user as it was, neither changing, creating nor removing it, in
\* every interleaving of the two users' operations; so a user's profile
\* changes only at that user's own operations, whichever order they run in.
C22_OtherUsersUntouched ==
    [][\A a \in People :
          (res'.user = a /\ res'.op \in MutatingOps)
          => \A b \in People \ {a} :
                /\ HasCycle(b) <=> b \in DOMAIN db'
                /\ HasCycle(b) => db'[b] = db[b]]_vars

\* u1 has started a period while u2 holds a profile with a period, changed
\* settings and a sharing list, which is all still there
C22_Witness ==
    /\ res.user = "u1" /\ res.op = "startPeriod" /\ res.status = 200
    /\ HasCycle("u2")
    /\ Len(db["u2"].periods) = 1
    /\ db["u2"].cycleLength = 30
    /\ db["u2"].shareWith = <<"u1">>
    /\ db["u1"].cycleLength = 28 /\ db["u1"].shareWith = <<>>

----------------------------------------------------------------------------
(* Periods logged in any order into a ledger, between changes of the       *)
(* settings and deletions                                                  *)

InitBatch ==
    /\ db = [x \in {} |-> <<>>]
    /\ conns = [x \in {} |-> ""]
    /\ cache = [x \in {} |-> <<>>]
    /\ res = Reply("", "none", 0, "")
    /\ now = 300
    /\ pc = [p \in {} |-> ""]
    /\ loc = [p \in {} |-> <<>>]
    /\ notifications = {}
    /\ errlog = {}
    /\ duplicates = {}

NextBatch ==
    \/ \E u \in Users, t \in Later(BatchClock), a \in BatchLogArgs :
          LogPeriod(u, t, a[1], a[2], "", MaxBatchPeriods)
    \/ \E u \in Users, t \in Later(BatchClock) :
          UpdateSettings(u, t, 30, Null, "")
    \/ \E u \in Users, t \in Later(BatchClock), i \in 0..MaxBatchPeriods :
          DeletePeriod(u, t, i)

SpecBatch == InitBatch /\ [][NextBatch]_vars

\* the positions, in the ledger s, of the later period of each pair of
\* consecutive periods among the three most recent whose start dates lie
\* 21 to 45 days apart
GapsInRange(s) ==
    {i \in 2..Len(s) :
        /\ i > Len(s) - 2
        /\ DaysBetween(s[i].startDate, s[i - 1].startDate) \in 21..45}

RECURSIVE SumOfGaps(_, _)
SumOfGaps(s, G) ==
    IF G = {} THEN 0
    ELSE LET i == CHOOSE i \in G : TRUE
         IN  DaysBetween(s[i].startDate, s[i - 1].startDate)
             + SumOfGaps(s, G \ {i})

\* n is the mean of the gaps G of s rounded to the nearest integer, a half
\* rounded up
IsRoundedMean(n, s, G) ==
    LET c == Cardinality(G)
    IN  /\ 2 * (n * c - SumOfGaps(s, G)) <= c
        /\ 2 * (SumOfGaps(s, G) - n * c) < c

C27_LastFollowsMostRecentLog ==
    [][\A u \in Users :
          (res'.op = "logPeriod" /\ res'.user = u /\ res'.status = 200)
          => IF \A i \in 1..Len(db'[u].periods) :
                   db'[u].periods[i].startDate <= res'.period.startDate
             THEN /\ db'[u].lastPeriodStart = res'.period.startDate
                  /\ db'[u].lastPeriodEnd = res'.period.endDate
             ELSE /\ HasCycle(u)
                  /\ db'[u].lastPeriodStart = db[u].lastPeriodStart
                  /\ db'[u].lastPeriodEnd = db[u].lastPeriodEnd]_vars

\* a completed period has been logged before the open period the profile
\* ends with, and the last-period fields still describe the open one
C27_Witness ==
    /\ res.op = "logPeriod" /\ res.status = 200
    /\ res.period.startDate = 44
    /\ Last(db[res.user].periods).startDate = 87
    /\ db[res.user].lastPeriodStart = 87
    /\ db[res.user].lastPeriodEnd = Null

----------------------------------------------------------------------------
(* The manual override: set with dates around every limit, cleared, and    *)
(* superseded by a started period                                          *)

NextExpected ==
    \/ \E u \in Users, t \in Later(ExpectedClock), a \in ExpectedBoundArgs :
          SetExpectedPeriod(u, t, a[1], a[2])
    \/ \E u \in Users, t \in Later(ExpectedClock) :
          ClearExpectedPeriod(u, t)
    \/ \E u \in Users, t \in Later(ExpectedClock), d \in ExpectedStartDates :
          StartPeriod(u, t, d, "", MaxExpectedPeriods)
    \/ \E u \in Users, t \in Later(ExpectedClock) :
          EndPeriod(u, t, Null)

SpecExpected == Init /\ [][NextExpected]_vars

\* the calendar day of an instant
DayOf(t) == t \div DayUnits

\* what the setExpectedPeriod request answered last asked for
ExpectedGiven ==
    IF res.status = 200
    THEN [startDate |-> res.expectedNextPeriod.startDate,
          endDate |-> res.expectedNextPeriod.endDate]
    ELSE res.request

\* C29: setExpectedPeriod stores {startDate, endDate, isManuallySet: true}
\* only when startDate <= endDate (if endDate is given), the day of
\* startDate is today or later, and startDate is at most 60 days after the
\* present instant; otherwise it fails with a validation error and the
\* stored override and the rest of the profile are unchanged.
C29_ExpectedStoredOnlyIfValid ==
    [][\A u \in Users :
          (res'.op = "setExpectedPeriod" /\ res'.user = u)
          => LET given == ExpectedGiven'
             IN  IF /\ given.endDate # Null => given.startDate <= given.endDate
                    /\ DayOf(given.startDate) >= DayOf(now')
                    /\ given.startDate <= now' + 60 * DayUnits
                 THEN /\ res'.status = 200
                      /\ db'[u].expectedNextPeriod =
                             [startDate |-> given.startDate,
                              endDate |-> given.endDate,
                              isManuallySet |-> TRUE]
                 ELSE /\ res'.status = 400
                      /\ res'.error \in ValidationErrors
                      /\ db' = db]_vars

\* at noon an override starting at midnight of the same day has been stored
C29_Witness ==
    /\ res.op = "setExpectedPeriod" /\ res.status = 200
    /\ now = 41
    /\ db[res.user].expectedNextPeriod =
           [startDate |-> 40, endDate |-> Null, isManuallySet |-> TRUE]

\* C30: the cameEarly flag returned by startPeriod is true if and only if,
\* before the call, a manually set expectedNextPeriod with a startDate
\* existed and the new period's start day is strictly earlier than that
\* expected start day; the change event emitted is period_started_early
\* exactly when cameEarly is true and period_started otherwise.
C30_CameEarlyIffBeforeForecast ==
    [][\A u \in Users :
          (res'.op = "startPeriod" /\ res'.user = u /\ res'.status = 200)
          => /\ res'.cameEarly <=>
                   /\ HasCycle(u)
                   /\ db[u].expectedNextPeriod.isManuallySet
                   /\ db[u].expectedNextPeriod.startDate # Null
                   /\ DayOf(res'.period.startDate)
                          < DayOf(db[u].expectedNextPeriod.startDate)
             /\ res'.event = "period_started_early" <=> res'.cameEarly
             /\ res'.event = "period_started" <=> ~res'.cameEarly]_vars

\* a period has been started ten days before the forecast set by hand, and
\* the forecast is gone
C30_Witness ==
    /\ res.op = "startPeriod" /\ res.status = 200
    /\ res.cameEarly
    /\ res.event = "period_started_early"
    /\ res.period.startDate = 40
    /\ ~db[res.user].expectedNextPeriod.isManuallySet

----------------------------------------------------------------------------
(* The forecast and the fertile window over every setting of the domains   *)

InitWindow ==
    /\ \E lps \in WindowStarts, cl \in WindowCycleLengths,
          pl \in WindowPeriodLengths :
          db = [u \in Users |-> PhaseCycle(lps, cl, pl)]
    /\ now \in WindowClock
    /\ cache = [x \in {} |-> <<>>]
    /\ res = Reply("", "none", 0, "")
    /\ pc = [p \in {} |-> ""]
    /\ loc = [p \in {} |-> <<>>]
    /\ conns = [x \in {} |-> ""]
    /\ notifications = {}
    /\ errlog = {}
    /\ duplicates = {}

NextPeriod(u) ==
    /\ res' = [user |-> u, op |-> "getNextPeriod", status |-> 200,
               error |-> "", nextPeriod |-> getNextPeriod(db[u])]
    /\ UNCHANGED <<db, cache, now, pc, loc, duplicates, conns, notifications, errlog>>

FertileWindow(u) ==
    /\ res' = [user |-> u, op |-> "getFertileWindow", status |-> 200,
               error |-> "", fertileWindow |-> getFertileWindow(db[u])]
    /\ UNCHANGED <<db, cache, now, pc, loc, duplicates, conns, notifications, errlog>>

NextWindow ==
    \/ \E u \in Users : NextPeriod(u)
    \/ \E u \in Users : FertileWindow(u)
    \/ \E u \in Users, t \in WindowClock, cl \in WindowCycleLengths :
          UpdateSettings(u, t, cl, Null, "")
    \/ \E u \in Users, t \in WindowClock, pl \in WindowPeriodLengths :
          UpdateSettings(u, t, Null, pl, "")
    \/ \E u \in Users, t \in WindowClock, a \in WindowExpectedArgs :
          SetExpectedPeriod(u, t, a[1], a[2])
    \/ \E u \in Users, t \in WindowClock :
          ClearExpectedPeriod(u, t)

SpecWindow == InitWindow /\ [][NextWindow]_vars

\* C31: with no manual override in force, nextPeriod() is null when
\* lastPeriodStart is null and otherwise has startDate = lastPeriodStart +
\* cycleLength days, endDate = startDate + periodLength - 1 days and
\* isManuallySet = false, for every cycleLength in [21,45] and periodLength
\* in [1,10].
C31_CalculatedForecast ==
    \A u \in Users :
        (res.op = "getNextPeriod" /\ res.user = u /\ ~ManualOverride(db[u]))
        => /\ db[u].cycleLength \in 21..45
           /\ db[u].periodLength \in 1..10
           /\ IF db[u].lastPeriodStart = Null
              THEN res.nextPeriod = <<>>
              ELSE /\ Len(res.nextPeriod) = 1
                   /\ res.nextPeriod[1].startDate
                          = db[u].lastPeriodStart
                                + db[u].cycleLength * DayUnits
                   /\ res.nextPeriod[1].endDate
                          = res.nextPeriod[1].startDate
                                + (db[u].periodLength - 1) * DayUnits
                   /\ ~res.nextPeriod[1].isManuallySet

\* the forecast of a 45-day cycle with 10-day periods whose last period
\* started on day 2: days 47 to 56
C31_Witness ==
    /\ res.op = "getNextPeriod"
    /\ db[res.user].lastPeriodStart = 4
    /\ db[res.user].cycleLength = 45
    /\ db[res.user].periodLength = 10
    /\ ~ManualOverride(db[res.user])
    /\ res.nextPeriod = <<[startDate |-> 94, endDate |-> 112,
                           isManuallySet |-> FALSE]>>

\* C32: fertileWindow() is null when lastPeriodStart is null and otherwise
\* is {start: lastPeriodStart + 10 days, ovulationDay: lastPeriodStart + 14
\* days, end: lastPeriodStart + 16 days}; the result does not change when
\* cycleLength or periodLength change.
C32_FertileWindowFixedOffsets ==
    [][\A u \in Users :
          /\ (res'.op = "getFertileWindow" /\ res'.user = u)
             => IF db'[u].lastPeriodStart = Null
                THEN res'.fertileWindow = <<>>
                ELSE res'.fertileWindow
                         = <<[start |-> db'[u].lastPeriodStart + 10 * DayUnits,
                              ovulationDay |-> db'[u].lastPeriodStart
                                                   + 14 * DayUnits,
                              end |-> db'[u].lastPeriodStart + 16 * DayUnits]>>
          /\ (res'.op = "updateSettings" /\ res'.user = u)
             => getFertileWindow(db'[u]) = getFertileWindow(db[u])]_vars

\* the window of a 45-day cycle with 10-day periods whose last period
\* started on day 2: days 12 to 18, ovulation on day 16
C32_Witness ==
    /\ res.op = "getFertileWindow"
    /\ db[res.user].cycleLength = 45
    /\ db[res.user].periodLength = 10
    /\ res.fertileWindow = <<[start |-> 24, end |-> 36, ovulationDay |-> 32]>>

----------------------------------------------------------------------------
(* The life of one profile: every mutating operation from the first        *)
(* request of a user on                                                    *)

NextProfile ==
    \/ \E u \in Users, t \in Later(ProfileClock) :
          StartPeriod(u, t, Null, "", MaxProfilePeriods)
    \/ \E u \in Users, t \in Later(ProfileClock) :
          EndPeriod(u, t, Null)
    \/ \E u \in Users, t \in Later(ProfileClock), a \in ProfileLogArgs :
          LogPeriod(u, t, a[1], a[2], "", MaxProfilePeriods)
    \/ \E u \in Users, t \in Later(ProfileClock), i \in 0..MaxProfilePeriods :
          DeletePeriod(u, t, i)
    \/ \E u \in Users, t \in Later(ProfileClock) :
          ClearPeriods(u, t)
    \/ \E u \in Users, t \in Later(ProfileClock), a \in ProfileSettingsArgs :
          UpdateSettings(u, t, a[1], a[2], a[3])
    \/ \E u \in Users, t \in Later(ProfileClock), a \in ProfileExpectedArgs :
          SetExpectedPeriod(u, t, a[1], a[2])
    \/ \E u \in Users, t \in Later(ProfileClock) :
          ClearExpectedPeriod(u, t)
    \/ \E u \in Users, t \in Later(ProfileClock), a \in ProfileSharingArgs :
          UpdateSharing(u, t, a)
    \/ \E u \in Users, t \in Later(ProfileClock), sv \in ProfileSeverities :
          LogSymptom(u, t, "cramps", sv, MaxProfileSymptoms)

SpecProfile == InitUsers /\ [][NextProfile]_vars

CreatingOps ==
    {"startPeriod", "logPeriod", "logSymptom", "updateSettings",
     "setExpectedPeriod"}

FindingOps ==
    {"endPeriod", "deletePeriod", "clearPeriods", "clearExpectedPeriod"}

\* C33: a profile is created lazily, with cycleLength 28, periodLength 5,
\* empty ledger and isTracking true (before the operation's own change is
\* applied), by the first startPeriod, logPeriod, logSymptom, updateSettings
\* or setExpectedPeriod of a user; endPeriod, deletePeriod, clearPeriods and
\* clearExpectedPeriod on a user with no profile fail with "Cycle data not
\* found" and do not create one; no operation ever deletes a profile.
\* (updateSettings asks for cycleLength 30; the period logged lasts 3 days,
\* which smooths the periodLength from 5 to 4.)
C33_LazyCreation ==
    [][\A u \in Users :
          /\ (~HasCycle(u) /\ res'.user = u /\ res'.op \in CreatingOps
                 /\ res'.status = 200)
             => /\ u \in DOMAIN db'
                /\ db'[u].isTracking
                /\ db'[u].periodLength
                       = IF res'.op = "logPeriod" THEN 4 ELSE 5
                /\ db'[u].cycleLength
                       = IF res'.op = "updateSettings" THEN 30 ELSE 28
                /\ db'[u].periods
                       = IF res'.op \in {"startPeriod", "logPeriod"}
                         THEN <<res'.period>> ELSE <<>>
                /\ db'[u].symptoms
                       = IF res'.op = "logSymptom"
                         THEN <<res'.symptom>> ELSE <<>>
                /\ db'[u].shareWith = <<>>
                /\ db'[u].expectedNextPeriod.isManuallySet
                       <=> res'.op = "setExpectedPeriod"
          /\ (~HasCycle(u) /\ res'.user = u /\ res'.op \in FindingOps)
             => /\ res'.status = 404
                /\ res'.error = "Cycle data not found"
                /\ u \notin DOMAIN db'
          /\ HasCycle(u) => u \in DOMAIN db']_vars

\* the first request of a user has set a manual forecast: the profile is
\* the default one with that forecast
C33_Witness ==
    /\ res.op = "setExpectedPeriod" /\ res.status = 200
    /\ HasCycle(res.user)
    /\ db[res.user] = [NewCycle(28, 5, TRUE) EXCEPT
                          !.expectedNextPeriod =
                              [startDate |-> 60, endDate |-> Null,
                               isManuallySet |-> TRUE]]

\* the symptoms stored for u, none without a profile
Symptoms(u) == IF HasCycle(u) THEN db[u].symptoms ELSE <<>>

\* C34: the symptom log is append-only: logSymptom adds exactly one entry
\* (severity defaulting to 3) and no operation, deletePeriod and
\* clearPeriods included, removes or modifies an existing symptom, so the
\* symptoms only grow along any sequence of operations.
C34_SymptomsAppendOnly ==
    [][\A u \in Users :
          /\ u \in DOMAIN db' \/ Symptoms(u) = <<>>
          /\ u \in DOMAIN db'
             => /\ Len(db'[u].symptoms) >= Len(Symptoms(u))
                /\ SubSeq(db'[u].symptoms, 1, Len(Symptoms(u))) = Symptoms(u)
                /\ IF res'.op = "logSymptom" /\ res'.user = u
                      /\ res'.status = 200
                   THEN /\ Len(db'[u].symptoms) = Len(Symptoms(u)) + 1
                        /\ Last(db'[u].symptoms).type = res'.request.type
                        /\ Last(db'[u].symptoms).severity
                               = IF res'.request.severity = Null THEN 3
                                 ELSE res'.request.severity
                   ELSE db'[u].symptoms = Symptoms(u)]_vars

\* a second symptom, logged without a severity, stands behind the first
\* in a profile with an empty ledger and a sharing list
C34_Witness ==
    /\ res.op = "logSymptom" /\ res.status = 200
    /\ res.request.severity = Null
    /\ db[res.user].symptoms
           = <<[date |-> 40, type |-> "cramps", severity |-> 5],
               [date |-> 40, type |-> "cramps", severity |-> 3]>>
    /\ db[res.user].periods = <<>>
    /\ db[res.user].shareWith = <<"u2">>

OverrideKeepingOps ==
    {"logPeriod", "endPeriod", "deletePeriod", "logSymptom", "updateSettings",
     "updateSharing"}

\* C35: a manual override set by setExpectedPeriod stays in force
\* (isManuallySet true with the same dates, returned by nextPeriod) across
\* every later logPeriod, endPeriod, deletePeriod, logSymptom,
\* updateSettings and updateSharing; only setExpectedPeriod,
\* clearExpectedPeriod, clearPeriods and a successful startPeriod change
\* expectedNextPeriod.
C35_OverrideStaysInForce ==
    [][\A u \in Users :
          HasCycle(u)
          => /\ (ManualOverride(db[u]) /\ res'.user = u
                    /\ res'.op \in OverrideKeepingOps)
                => /\ db'[u].expectedNextPeriod = db[u].expectedNextPeriod
                   /\ getNextPeriod(db'[u])
                          = <<[startDate |-> db[u].expectedNextPeriod.startDate,
                               endDate |-> db[u].expectedNextPeriod.endDate,
                               isManuallySet |-> TRUE]>>
                   /\ ("nextPeriod" \in DOMAIN res' /\ res'.status = 200)
                          => res'.nextPeriod = getNextPeriod(db'[u])
             /\ db'[u].expectedNextPeriod # db[u].expectedNextPeriod
                => \/ res'.op \in {"setExpectedPeriod", "clearExpectedPeriod",
                                   "clearPeriods"}
                   \/ res'.op = "startPeriod" /\ res'.status = 200]_vars

\* a period was logged and then deleted behind a manual forecast for day
\* 30, which is still the forecast
C35_Witness ==
    /\ res.op = "deletePeriod" /\ res.status = 200
    /\ db[res.user].periods = <<>>
    /\ db[res.user].lastPeriodStart = Null
    /\ db[res.user].expectedNextPeriod
           = [startDate |-> 60, endDate |-> Null, isManuallySet |-> TRUE]
    /\ getNextPeriod(db[res.user])
           = <<[startDate |-> 60, endDate |-> Null, isManuallySet |-> TRUE]>>

----------------------------------------------------------------------------
(* The ledger read back by its owner and by a viewer it is shared with     *)

NextOngoing ==
    \/ \E u \in Users, t \in Later(Clock) :
          StartPeriod(u, t, Null, "", MaxOngoingPeriods)
    \/ \E u \in Users, t \in Later(Clock) :
          EndPeriod(u, t, Null)
    \/ \E u \in Users, t \in Later(Clock), a \in OngoingLogArgs :
          LogPeriod(u, t, a[1], a[2], "", MaxOngoingPeriods)
    \/ \E u \in Users, t \in Later(Clock), i \in 0..MaxOngoingPeriods :
          DeletePeriod(u, t, i)
    \/ \E u \in Users, t \in Later(Clock), a \in ProfileSharingArgs :
          UpdateSharing(u, t, a)
    \/ \E u \in Users, t \in Later(Clock) :
          GetCycle(u, t)
    \/ \E v \in People \ Users, t \in Later(Clock), o \in Users :
          GetSharedCycle(v, t, o)

SpecOngoing == InitUsers /\ [][NextOngoing]_vars

\* the profile a successful read reports on
ReadProfile == IF res.op = "getCycle" THEN res.user ELSE res.owner

\* C36: the hasOngoingPeriod flag reported by getCycle and getSharedCycle is
\* true if and only if the ledger contains a period with endDate == null,
\* in every state reachable by startPeriod, endPeriod, logPeriod and
\* deletePeriod.
C36_OngoingFlagExact ==
    (res.op \in {"getCycle", "getSharedCycle"} /\ res.status = 200)
    => (res.hasOngoingPeriod <=> Ongoing(db[ReadProfile].periods) # {})

----------------------------------------------------------------------------
(* GET / in the steps of the cacheCycle middleware, beside the mutations   *)
(* that invalidate the entry                                               *)

\* const cachedData = await CacheService.get(key): a hit is answered from
\* the cache, a miss goes on to the handler
Get_Lookup(p, u) ==
    /\ pc[p] = "lookup"
    /\ IF u \in DOMAIN cache
       THEN /\ res' = cache[u]
            /\ UNCHANGED pc
       ELSE /\ pc' = [pc EXCEPT ![p] = "read"]
            /\ UNCHANGED res
    /\ UNCHANGED <<db, cache, now, loc, duplicates>>
    /\ UNCHANGED <<conns, notifications, errlog>>

\* the handler: Cycle.findOne, Cycle.create when absent, the body built
Get_Read(p, u) ==
    /\ pc[p] = "read"
    /\ LET cycle == FindOrCreate(u)
       IN  /\ db' = Save(u, cycle)
           /\ loc' = [loc EXCEPT ![p] = [body |-> <<CycleBody(u, cycle)>>]]
    /\ pc' = [pc EXCEPT ![p] = "fill"]
    /\ UNCHANGED <<cache, res, now, duplicates>>
    /\ UNCHANGED <<conns, notifications, errlog>>

\* the overridden res.json: CacheService.set(key, data, ttl), then the
\* response
Get_Fill(p, u) ==
    /\ pc[p] = "fill"
    /\ loc[p].body # <<>>
    /\ loc[p].body[1].user = u
    /\ cache' = [x \in DOMAIN cache \cup {u} |->
                    IF x = u THEN loc[p].body[1] ELSE cache[x]]
    /\ res' = loc[p].body[1]
    /\ pc' = [pc EXCEPT ![p] = "lookup"]
    /\ loc' = [loc EXCEPT ![p] = [body |-> <<>>]]
    /\ UNCHANGED <<db, now, duplicates>>
    /\ UNCHANGED <<conns, notifications, errlog>>

InitCache ==
    /\ db = [x \in {} |-> <<>>]
    /\ cache = [x \in {} |-> <<>>]
    /\ res = Reply("", "none", 0, "")
    /\ now = 40
    /\ pc = [p \in Readers |-> "lookup"]
    /\ loc = [p \in Readers |-> [body |-> <<>>]]
    /\ conns = [x \in {} |-> ""]
    /\ notifications = {}
    /\ errlog = {}
    /\ duplicates = {}

NextCache ==
    \/ \E p \in Readers, u \in Users : Get_Lookup(p, u)
    \/ \E p \in Readers, u \in Users : Get_Read(p, u)
    \/ \E p \in Readers, u \in Users : Get_Fill(p, u)
    \/ \E u \in Users, t \in Later(Clock) :
          StartPeriod(u, t, Null, "", MaxCachePeriods)
    \/ \E u \in Users, t \in Later(Clock) :
          EndPeriod(u, t, Null)

SpecCache == InitCache /\ [][NextCache]_vars

\* C37: read-your-writes through the cycle cache: once a mutating operation
\* of user U has returned, every getCycle(U) served afterwards reflects
\* that mutation, under every interleaving of an in-flight getCycle (store
\* read, then cache fill) with the mutation (store write, then cache
\* invalidation); the cache entry never holds a pre-mutation response
\* after the invalidation.  A read begun after the mutation is answered
\* from the entry or, without one, from the store; no mutation is ever half
\* done here, so the claim is that the entry agrees with the stored profile.
C37_ReadYourWrites ==
    \A u \in Users :
        u \in DOMAIN cache => HasCycle(u) /\ cache[u] = CycleBody(u, db[u])

----------------------------------------------------------------------------
(* The sharing gate seen by a viewer while the owner's profile changes     *)

NextGate ==
    \/ \E u \in Users, t \in Later(Clock) :
          StartPeriod(u, t, Null, "", MaxGatePeriods)
    \/ \E u \in Users, t \in Later(Clock) :
          EndPeriod(u, t, Null)
    \/ \E u \in Users, t \in Later(Clock) :
          LogSymptom(u, t, "cramps", Null, MaxGateSymptoms)
    \/ \E u \in Users, t \in Later(Clock), a \in GateSettingsArgs :
          UpdateSettings(u, t, a[1], a[2], a[3])
    \/ \E u \in Users, t \in Later(Clock), a \in ProfileExpectedArgs :
          SetExpectedPeriod(u, t, a[1], a[2])
    \/ \E u \in Users, t \in Later(Clock), a \in ProfileSharingArgs :
          UpdateSharing(u, t, a)
    \/ \E u \in Users, c \in DOMAIN conns : RemoveConnection(u, c)
    \/ \E v \in People \ Users, t \in Later(Clock), o \in Users :
          GetSharedCycle(v, t, o)

SpecGate == InitUsers /\ [][NextGate]_vars

\* the viewer passes the sharing gate of the owner
PassesGate(viewer, owner) ==
    /\ AcceptedRelationship(viewer, owner)
    /\ HasCycle(owner)
    /\ viewer \in SharedUsers(db[owner])

\* C39: for a viewer who fails the gate (no accepted relationship, or not
\* in shareWith), the result of getSharedCycle is the same for any two owner
\* profiles that differ only in ledger, symptoms, cycleLength, periodLength
\* or expectedNextPeriod: the whole response is fixed by the viewer, the
\* owner's id and which test failed, whatever the owner's profile holds.
C39_DeniedViewerLearnsNothing ==
    [][\A v \in People, o \in Users :
          (res'.op = "getSharedCycle" /\ res'.user = v /\ res'.owner = o
              /\ ~PassesGate(v, o))
          => res' = [user |-> v, op |-> "getSharedCycle", owner |-> o,
                     status |-> 403,
                     error |-> IF ~AcceptedRelationship(v, o)
                               THEN "You are not connected with this user"
                               ELSE "User is not sharing cycle data with you"]
      ]_vars

\* a viewer without the connection has been refused by an owner whose
\* profile holds a period, a symptom, changed lengths and a manual forecast
C39_Witness ==
    /\ res.op = "getSharedCycle" /\ res.status = 403
    /\ HasCycle(res.owner)
    /\ ~AcceptedRelationship(res.user, res.owner)
    /\ db[res.owner].shareWith = <<res.user>>
    /\ Len(db[res.owner].periods) = 1
    /\ Len(db[res.owner].symptoms) = 1
    /\ db[res.owner].cycleLength = 30
    /\ db[res.owner].periodLength = 4
    /\ db[res.owner].expectedNextPeriod.isManuallySet

====
